---------------------------- MODULE Spec2Model ----------------------------
(***************************************************************************)
(* The inline-cache rewriter of src/asm_writing/rewriter.cpp as a state    *)
(* machine.  A client records virtual operations (collect phase); commit() *)
(* replays them (emit phase), running the register allocator, the refcount *)
(* bookkeeping and the decref-info publication.                            *)
(*                                                                         *)
(* Action indices, use indices and register numbers are 0-based as in the  *)
(* source; TLA+ sequences are 1-based, so actions[i + 1] is action i.      *)
(* RewriterVar pointers are indices into vars (1..Len(vars)); NULL is 0.   *)
(***************************************************************************)
EXTENDS Integers, Sequences, FiniteSets, TLC

(***************************************************************************)
(* Registers (x86-64 encoding order, which is the RegisterSet order).      *)
(***************************************************************************)
RAX == 0
RCX == 1
RDX == 2
RBX == 3
RSP == 4
RBP == 5
RSI == 6
RDI == 7
R8 == 8
R9 == 9
R10 == 10
R11 == 11
R12 == 12
R13 == 13
R14 == 14
R15 == 15

NumRegs == 16
NumXMMRegs == 16

NULL == 0
LOCATION_PLACEHOLDER == -1

\* The invalidation counter's increment must end at least this many bytes
\* into the slot.
IC_INVALDITION_HEADER_SIZE == 6

(***************************************************************************)
(* Location: a tagged value.                                               *)
(***************************************************************************)
Reg(n) == [type |-> "Register", n |-> n]
XMM(n) == [type |-> "XMMRegister", n |-> n]
Scratch(off) == [type |-> "Scratch", n |-> off]
Stack(off) == [type |-> "Stack", n |-> off]
AnyReg == [type |-> "AnyReg", n |-> 0]
NoneLoc == [type |-> "None", n |-> 0]

forArg(argnum) ==
    CASE argnum = 0 -> Reg(RDI)
      [] argnum = 1 -> Reg(RSI)
      [] argnum = 2 -> Reg(RDX)
      [] argnum = 3 -> Reg(RCX)
      [] argnum = 4 -> Reg(R8)
      [] argnum = 5 -> Reg(R9)
      [] OTHER -> Stack((argnum - 6) * 8)

isCalleeSave(r) == r \in {RBX, RSP, RBP, R12, R13, R14, R15}

isClobberedByCall(l) ==
    CASE l.type = "Register" -> ~isCalleeSave(l.n)
      [] l.type = "XMMRegister" -> TRUE
      [] OTHER -> FALSE

std_allocatable_regs == {RAX, RCX, RDX, RDI, RSI, R8, R9, R10, R11}

\* The caller_save_registers table, in its order.
caller_save_registers ==
    <<Reg(RAX), Reg(RCX), Reg(RDX), Reg(RSI), Reg(RDI), Reg(R8), Reg(R9),
      Reg(R10), Reg(R11)>> \o [i \in 1..NumXMMRegs |-> XMM(i - 1)]

\* 64-bit values are written hi * 2^30 + lo with 0 <= lo < 2^30.
Val(hi, lo) == [hi |-> hi, lo |-> lo]

ValOf(n) == Val(0, n)

ValSub(a, b) ==
    IF a.lo >= b.lo THEN Val(a.hi - b.hi, a.lo - b.lo)
    ELSE Val(a.hi - b.hi - 1, a.lo - b.lo + 1073741824)

\* val does not fit a signed 32-bit immediate: val < -2^31 or val >= 2^31
isLargeConstant(val) ==
    \/ val.hi < -2
    \/ val.hi > 1

(***************************************************************************)
(* State.                                                                  *)
(*   scenario   what the slot collaborator and the client's call site fix: *)
(*              allocatable registers, scratch size, live-outs, ...        *)
(*   vars ...   the fields of Rewriter and of its RewriterVars             *)
(*   slot       the ICSlotRewrite collaborator: "open", "committed" or     *)
(*              "aborted"                                                  *)
(*   code, call_log, jmp_log, rel_log   what has been emitted: the         *)
(*              instruction stream and, at each call instruction, guard    *)
(*              jump and release, the allocator state at that moment       *)
(*   before     (in call_log) the variables when the call's _setupCall     *)
(*              began                                                      *)
(*   pre        (in the code log) the action whose consumed-reference      *)
(*              increfs are being emitted, -1 elsewhere                    *)
(*   rel        (in the code log and call_log) the variable whose release  *)
(*              is emitting, NULL elsewhere                                *)
(*   chk_log    the assertConsistent() calls that found the maps           *)
(*              inconsistent                                               *)
(*   end_log    the variables and the map when the slot's code is          *)
(*              complete (after the live-out placement, before the final   *)
(*              bookkeeping of uses)                                       *)
(*   stage      (in the code log and rel_log) the part of commit() that    *)
(*              emitted the entry                                          *)
(*   getattr_log, attr_guard_log   the calls of getAttr and addAttrGuard   *)
(*              as the client made them                                    *)
(*   guard_log  the calls of addGuard on a constant variable: the value    *)
(*              asked for, and the rewriter before and after the call      *)
(*   run_log    the actions in the order commit() ran them                 *)
(*   alloc_log  the calls of allocReg and spillRegister: what was asked,   *)
(*              the register, and the allocator's state before and after   *)
(*   py_objs    the objects a client may pin: refcount, the increments     *)
(*              and decrements the rewriter made, whether the owner has    *)
(*              given up its own reference                                 *)
(*   slot_gc_references   the pins handed to the slot at commit            *)
(*   bytes_written, next_slot_jmps, emitted_jmps   guard jumps by byte     *)
(*              offset, see JumpSpec                                       *)
(*   patchpoint the last call of initializePatchpoint3: its inputs, what   *)
(*              it returned and the code it laid out, see PatchSpec        *)
(*   outcome_log  how the rewrite ended: the calls made on the slot        *)
(*              ("commit", "abort") and the assignments of finished        *)
(*              ("finished"), in order, each with the assembler's          *)
(*              has-failed flag once it was done                           *)
(***************************************************************************)
VARIABLES scenario, phase, vars, vars_by_location, actions, consts, getattrs,
          args, live_outs, live_out_regs,
          failed, finished, added_changing_action, last_guard_action,
          done_guarding, marked_inside_ic, current_action_idx, picked_slot,
          owned_attrs, decref_infos, gc_references, num_consumes,
          slot, crash, dbg, code, call_log, jmp_log, rel_log, chk_log, end_log,
          getattr_log, run_log, alloc_log, attr_guard_log,
          bytes_written, next_slot_jmps, emitted_jmps, py_objs, slot_gc_references,
          guard_log, patchpoint, outcome_log

vars_ == <<scenario, phase, vars, vars_by_location, actions, consts, getattrs,
           args, live_outs, live_out_regs,
           failed, finished, added_changing_action, last_guard_action,
           done_guarding, marked_inside_ic, current_action_idx, picked_slot,
           owned_attrs, decref_infos, gc_references, num_consumes,
           slot, crash, dbg, code, call_log, jmp_log, rel_log, chk_log, end_log,
           getattr_log, run_log, alloc_log, attr_guard_log,
           bytes_written, next_slot_jmps, emitted_jmps, py_objs, slot_gc_references,
           guard_log, patchpoint, outcome_log>>

(***************************************************************************)
(* Small helpers on sequences.                                             *)
(***************************************************************************)
InSeq(s, x) == \E i \in 1..Len(s) : s[i] = x

RemoveFirst(s, x) ==
    LET i == CHOOSE k \in 1..Len(s) : s[k] = x /\ \A j \in 1..(k - 1) : s[j] # x
    IN  IF InSeq(s, x) THEN SubSeq(s, 1, i - 1) \o SubSeq(s, i + 1, Len(s)) ELSE s

Min(S) == CHOOSE x \in S : \A y \in S : x <= y

(***************************************************************************)
(* RewriterVar.                                                            *)
(***************************************************************************)
NewVar ==
    [locations |-> <<>>, is_constant |-> FALSE, constant_value |-> ValOf(0),
     is_arg |-> FALSE, arg_loc |-> NoneLoc, reftype |-> "UNKNOWN",
     nullable |-> FALSE, uses |-> <<>>, next_use |-> 0,
     num_refs_consumed |-> 0, last_refconsumed_numuses |-> 0,
     scratch_allocation |-> <<0, 0>>, attr_guards |-> {}]

isInLocation(var, l) == InSeq(var.locations, l)

isScratchAllocation(var) == var.scratch_allocation[2] > 0

isDoneUsing(var) == var.next_use = Len(var.uses)

getScratchLocation(var, additional_offset_in_bytes) ==
    Scratch(var.scratch_allocation[1] * 8 + additional_offset_in_bytes)

refHandedOff(var) ==
    /\ var.reftype = "OWNED"
    /\ var.num_refs_consumed > 0
    /\ var.last_refconsumed_numuses = Len(var.uses)

needsDecref(var, current_action_index) ==
    IF var.reftype # "OWNED" THEN FALSE
    ELSE IF var.num_refs_consumed = 0 THEN TRUE
    ELSE var.uses[var.last_refconsumed_numuses] # current_action_index

isImmediate(var) == var.is_constant /\ ~isLargeConstant(var.constant_value)

(***************************************************************************)
(* The emit phase is written as functions on a record R holding the part   *)
(* of the state that emission changes.                                     *)
(***************************************************************************)
RW ==
    [vars |-> vars, vbl |-> vars_by_location, failed |-> failed,
     done_guarding |-> done_guarding, marked_inside_ic |-> marked_inside_ic,
     cur |-> current_action_idx, owned_attrs |-> owned_attrs,
     decref_infos |-> decref_infos, crash |-> crash, dbg |-> dbg,
     code |-> code, call_log |-> call_log, jmp_log |-> jmp_log,
     rel_log |-> rel_log, chk_log |-> chk_log, end_log |-> end_log,
     run_log |-> run_log, alloc_log |-> alloc_log,
     stage |-> "collect",
     pre |-> -1, rel |-> NULL, setup |-> <<>>]

\* A debug-build assert that does not hold: noted, execution goes on as in
\* an NDEBUG build.
Dbg(R, cond, name) == IF cond THEN R ELSE [R EXCEPT !.dbg = @ \cup {name}]

\* A RELEASE_ASSERT / abort() / wild dereference: the process stops.
Crash(R, name) == IF R.crash = "" THEN [R EXCEPT !.crash = name] ELSE R

\* Nothing is emitted once the process has stopped.
Emit(R, op, dst, src, v, imm) ==
    IF R.crash # "" THEN R ELSE
    [R EXCEPT !.code = Append(@, [op |-> op, dst |-> dst, src |-> src, v |-> v,
                                  imm |-> imm, act |-> R.cur, pre |-> R.pre,
                                  rel |-> R.rel, stage |-> R.stage,
                                  guarding |-> ~R.done_guarding])]

count(R, l) == l \in DOMAIN R.vbl

VarAt(R, l) == IF l \in DOMAIN R.vbl THEN R.vbl[l] ELSE NULL

SetAt(R, l, v) ==
    [R EXCEPT !.vbl = [x \in (DOMAIN R.vbl) \cup {l} |-> IF x = l THEN v ELSE R.vbl[x]]]

EraseAt(R, l) ==
    [R EXCEPT !.vbl = [x \in (DOMAIN R.vbl) \ {l} |-> R.vbl[x]]]

addLocationToVar(R, v, l) ==
    IF R.failed THEN R
    ELSE
      LET R1 == Dbg(Dbg(R, ~isInLocation(R.vars[v], l), "addLocationToVar:in_location"),
                    ~count(R, l), "addLocationToVar:occupied")
          R2 == [SetAt(R1, l, v) EXCEPT !.vars[v].locations = Append(@, l)]
          var == R2.vars[v]
          cnt == (IF isImmediate(var) THEN 1 ELSE 0)
                 + Cardinality({i \in 1..Len(var.locations) :
                                  var.locations[i].type \in {"Stack", "Scratch"}})
      IN  Dbg(R2, cnt <= 1, "addLocationToVar:stack_scratch_const")

\* Mutant: the location leaves the variable's set but stays in the map.
removeLocationFromVar_keeps_map(R, v, l) ==
    [R EXCEPT !.vars[v].locations = RemoveFirst(@, l)]

removeLocationFromVar(R, v, l) ==
    LET R1 == Dbg(Dbg(R, isInLocation(R.vars[v], l), "removeLocationFromVar:not_in_location"),
                  VarAt(R, l) = v, "removeLocationFromVar:not_owner")
    IN  [EraseAt(R1, l) EXCEPT !.vars[v].locations = RemoveFirst(@, l)]

ScratchOffsets == {i * 8 : i \in 0..((scenario.scratch_size \div 8) - 1)}

\* The location allocScratch() returns (None when the slab is full).
allocScratchLoc(R) ==
    LET free == {o \in ScratchOffsets : ~count(R, Scratch(o))}
    IN  IF free = {} THEN NoneLoc ELSE Scratch(Min(free))

allocScratch(R) ==
    IF allocScratchLoc(R) = NoneLoc THEN [R EXCEPT !.failed = TRUE] ELSE R

(***************************************************************************)
(* The functions of commit() call one another in cycles (allocating a      *)
(* register spills, a spill allocates; a release emits a decref, which is  *)
(* a call, whose set-up bumps uses and releases).  Each function is        *)
(* defined once under its own name; a call of function fn with arguments a *)
(* is written Invoke(fn, a), and Invoke, defined after the last of them,   *)
(* applies the function named.                                             *)
(***************************************************************************)
RECURSIVE Invoke(_, _)

\* What a call of the allocator sees and leaves: the location map, the
\* variables, the flags, and how much code had been emitted.
AllocatorState(R) ==
    [vbl |-> R.vbl, vars |-> R.vars, guarding |-> ~R.done_guarding, failed |-> R.failed,
     ncode |-> Len(R.code), dbg |-> R.dbg, crash |-> R.crash]

LogAlloc(R, kind, dest, otherThan, valid, reg, before) ==
    [R EXCEPT !.alloc_log =
        Append(@, [kind |-> kind, dest |-> dest, otherThan |-> otherThan, valid |-> valid,
                   reg |-> reg, act |-> R.cur, before |-> before,
                   after |-> AllocatorState(R)])]

\* Mutant: the register is given up without its value being moved.
spillRegister_forgets(R, reg, preserve) ==
    IF VarAt(R, Reg(reg)) = NULL THEN Crash(R, "spillRegister:null_var")
    ELSE Invoke("removeLocationFromVar", <<R, VarAt(R, Reg(reg)), Reg(reg)>>)

spillRegister(R, reg, preserve) ==
    LET v == VarAt(R, Reg(reg)) IN
    IF v = NULL THEN Crash(Dbg(R, FALSE, "spillRegister:var"), "spillRegister:null_var")
    ELSE
      LET var == R.vars[v]
          callee == {r \in scenario.allocatable_regs :
                        isCalleeSave(r) /\ ~count(R, Reg(r)) /\ Reg(r) # preserve}
      IN  IF Len(var.locations) > 1 \/ var.is_constant \/ isScratchAllocation(var)
          THEN Invoke("removeLocationFromVar", <<R, v, Reg(reg)>>)
          ELSE IF callee # {}
          THEN LET new_reg == Min(callee)
               IN  Invoke("removeLocationFromVar", <<
                     Invoke("addLocationToVar", <<Emit(R, "mov", Reg(new_reg), Reg(reg), v, 0),
                                      v, Reg(new_reg)>>),
                     v, Reg(reg)>>)
          ELSE LET scratch == allocScratchLoc(R)
                   R1 == allocScratch(R)
               IN  IF R1.failed THEN R1
                   ELSE Invoke("removeLocationFromVar", <<
                          Invoke("addLocationToVar", <<Emit(R1, "mov", scratch, Reg(reg), v, 0),
                                           v, scratch>>),
                          v, Reg(reg)>>)

\* spillRegister, the call noted in alloc_log.
spillRegisterLogged(R, reg, preserve) ==
    LogAlloc(spillRegister(R, reg, preserve), "spillRegister",
             Reg(reg), preserve, scenario.allocatable_regs, reg, AllocatorState(R))

spillXMMRegister(R, reg) ==
    LET v == VarAt(R, XMM(reg))
        scratch == allocScratchLoc(R)
        R1 == Dbg(allocScratch(R), Len(R.vars[v].locations) = 1, "spillRegister(xmm):locations")
        R2 == Dbg(R1, scratch # NoneLoc, "indirectFor:type")
    IN  Invoke("removeLocationFromVar", <<
          Invoke("addLocationToVar", <<Emit(R2, "movsd", scratch, XMM(reg), v, 0), v, scratch>>),
          v, XMM(reg)>>)

(***************************************************************************)
(* allocReg.  The register it returns is a function of the state before    *)
(* the call, so it is given as two operators: the register, and the state  *)
(* after (the spill).                                                      *)
(***************************************************************************)
\* Registers of valid_registers that the AnyReg scan looks at.
AnyRegCandidates(otherThan, valid_registers) ==
    {r \in valid_registers : Reg(r) # otherThan}

\* Occupied candidates that may be spilled: not an entry argument in its
\* argument register while guarding, and with a use still to come.
SpillCandidates(R, otherThan, valid_registers) ==
    {r \in AnyRegCandidates(otherThan, valid_registers) :
        /\ count(R, Reg(r))
        /\ LET var == R.vars[VarAt(R, Reg(r))]
           IN  /\ ~(~R.done_guarding /\ var.is_arg /\ var.arg_loc = Reg(r))
               /\ var.next_use # Len(var.uses)}

NextUseAt(R, r) ==
    LET var == R.vars[VarAt(R, Reg(r))] IN var.uses[var.next_use + 1]

\* Mutant: the AnyReg scan looks at every general-purpose register.
allocRegChoice_any_register(R, dest, otherThan, valid_registers) ==
    IF dest.type = "AnyReg"
    THEN LET free == {r \in 0..15 : Reg(r) # otherThan /\ ~count(R, Reg(r))}
         IN  IF free # {} THEN Min(free) ELSE RAX
    ELSE dest.n

allocRegChoice(R, dest, otherThan, valid_registers) ==
    IF dest.type = "AnyReg"
    THEN LET free == {r \in AnyRegCandidates(otherThan, valid_registers) : ~count(R, Reg(r))}
             cand == SpillCandidates(R, otherThan, valid_registers)
         IN  IF free # {} THEN Min(free)
             ELSE IF cand = {} THEN RAX  \* best_reg(0), never assigned
             ELSE Min({r \in cand : \A q \in cand : NextUseAt(R, q) <= NextUseAt(R, r)})
    ELSE dest.n

allocRegState(R, dest, otherThan, valid_registers) ==
    IF dest.type = "AnyReg"
    THEN LET free == {r \in AnyRegCandidates(otherThan, valid_registers) : ~count(R, Reg(r))}
             cand == SpillCandidates(R, otherThan, valid_registers)
         IN  IF free # {} THEN R
             ELSE Invoke("spillRegisterLogged", <<Dbg(R, cand # {}, "allocReg:found"),
                                allocRegChoice(R, dest, otherThan, valid_registers),
                                otherThan>>)
    ELSE IF dest.type = "Register"
    THEN LET R1 == Dbg(R, dest.n \in valid_registers, "allocReg:valid_registers")
         IN  IF count(R1, dest) THEN Invoke("spillRegisterLogged", <<R1, dest.n, otherThan>>) ELSE R1
    ELSE Crash(R, "allocReg:dest_type")

allocReg(R, dest, otherThan, valid_registers) ==
    [st |-> LogAlloc(Invoke("allocRegState", <<R, dest, otherThan, valid_registers>>),
                     "allocReg", dest, otherThan, valid_registers,
                     allocRegChoice(R, dest, otherThan, valid_registers),
                     AllocatorState(R)),
     reg |-> allocRegChoice(R, dest, otherThan, valid_registers)]

(***************************************************************************)
(* ConstLoader.                                                            *)
(***************************************************************************)
\* findConst: the first register location of the dedup-table entry of val.
findConst(R, val) ==
    LET hits == {i \in 1..Len(consts) :
                    /\ consts[i][1] = val
                    /\ \E k \in 1..Len(R.vars[consts[i][2]].locations) :
                          R.vars[consts[i][2]].locations[k].type = "Register"}
    IN  IF hits = {} THEN [found |-> FALSE, reg |-> 0]
        ELSE LET locs == R.vars[consts[Min(hits)][2]].locations
                 k == Min({j \in 1..Len(locs) : locs[j].type = "Register"})
             IN  [found |-> TRUE, reg |-> locs[k].n]

\* tryLea: the lowest-numbered register holding a constant close enough.
LeaBases(R, val) ==
    {r \in 0..(NumRegs - 1) :
        /\ count(R, Reg(r))
        /\ R.vars[VarAt(R, Reg(r))].is_constant
        /\ ~isLargeConstant(ValSub(val, R.vars[VarAt(R, Reg(r))].constant_value))}

\* A call of loadConstIntoReg noted in alloc_log: the value, the register,
\* and the allocator's state before and after (ncode tells which
\* instructions the call emitted).
LogConst(R, val, dst_reg, before) ==
    [R EXCEPT !.alloc_log =
        Append(@, [kind |-> "loadConstIntoReg", val |-> val, reg |-> dst_reg, act |-> R.cur,
                   before |-> before, after |-> AllocatorState(R)])]

\* Mutant: tryLea is tried before tryRegRegMove.
loadConstIntoReg_lea_first(R, val, dst_reg) ==
    LogConst(
      IF val = ValOf(0) THEN Emit(R, "clear_reg", Reg(dst_reg), NoneLoc, NULL, 0)
      ELSE IF isLargeConstant(val) /\ LeaBases(R, val) # {}
      THEN LET b == Min(LeaBases(R, val))
           IN  Emit(R, "lea", Reg(dst_reg), Reg(b), NULL,
                    ValSub(val, R.vars[VarAt(R, Reg(b))].constant_value))
      ELSE IF findConst(R, val).found
      THEN IF findConst(R, val).reg # dst_reg
           THEN Emit(R, "mov", Reg(dst_reg), Reg(findConst(R, val).reg), NULL, val)
           ELSE R
      ELSE Emit(R, "mov_imm", Reg(dst_reg), NoneLoc, NULL, val),
      val, dst_reg, AllocatorState(R))

loadConstIntoReg(R, val, dst_reg) ==
    LogConst(
      IF val = ValOf(0) THEN Emit(R, "clear_reg", Reg(dst_reg), NoneLoc, NULL, 0)
      ELSE IF findConst(R, val).found
      THEN IF findConst(R, val).reg # dst_reg
           THEN Emit(R, "mov", Reg(dst_reg), Reg(findConst(R, val).reg), NULL, val)
           ELSE R
      ELSE IF isLargeConstant(val) /\ LeaBases(R, val) # {}
      THEN LET b == Min(LeaBases(R, val))
           IN  Emit(R, "lea", Reg(dst_reg), Reg(b), NULL,
                    ValSub(val, R.vars[VarAt(R, Reg(b))].constant_value))
      ELSE Emit(R, "mov_imm", Reg(dst_reg), NoneLoc, NULL, val),
      val, dst_reg, AllocatorState(R))

(***************************************************************************)
(* RewriterVar::getInReg, initializeInReg and their XMM counterparts.      *)
(***************************************************************************)
FirstRegisterLoc(var) ==
    var.locations[Min({k \in 1..Len(var.locations) : var.locations[k].type = "Register"})]

HasRegisterLoc(var) ==
    \E k \in 1..Len(var.locations) : var.locations[k].type = "Register"

getInReg(R, v, dest, allow_constant_in_reg, otherThan) ==
    LET var == R.vars[v]
        R0 == Dbg(R, allow_constant_in_reg \/ ~var.is_constant
                        \/ isLargeConstant(var.constant_value),
                  "getInReg:constant_in_reg")
        a == Invoke("allocReg", <<R0, dest, otherThan, scenario.allocatable_regs>>)
    IN  IF Len(var.locations) = 0 /\ var.is_constant
        THEN [st |-> Invoke("addLocationToVar", <<Invoke("loadConstIntoReg", <<a.st, var.constant_value, a.reg>>),
                                      v, Reg(a.reg)>>),
              reg |-> a.reg]
        ELSE IF Len(var.locations) = 0 /\ isScratchAllocation(var)
        THEN [st |-> Invoke("addLocationToVar", <<
                        Emit(a.st, "lea", Reg(a.reg), getScratchLocation(var, 0), v, 0),
                        v, Reg(a.reg)>>),
              reg |-> a.reg]
        ELSE IF Len(var.locations) = 0
        THEN [st |-> Crash(Dbg(R0, FALSE, "getInReg:locations"), "getInReg:no_location"),
              reg |-> RAX]
        ELSE IF isInLocation(var, dest)
        THEN [st |-> R0, reg |-> dest.n]
        ELSE IF HasRegisterLoc(var)
        THEN LET reg == FirstRegisterLoc(var).n
             IN  IF dest.type # "AnyReg"
                 THEN [st |-> Invoke("addLocationToVar", <<
                                Emit(a.st, "mov", dest, Reg(reg), v, 0), v, dest>>),
                       reg |-> dest.n]
                 ELSE [st |-> Dbg(R0, Reg(reg) # otherThan, "getInReg:otherThan"),
                       reg |-> reg]
        ELSE LET l == var.locations[1]
                 R1 == Dbg(a.st, Len(var.locations) = 1, "getInReg:one_location")
             IN  IF R1.failed THEN [st |-> R1, reg |-> a.reg]
                 ELSE IF l.type \in {"Scratch", "Stack"}
                 THEN [st |-> Invoke("addLocationToVar", <<
                                Emit(Dbg(R1, ~count(R1, Reg(a.reg)), "getInReg:reg_free"),
                                     "mov", Reg(a.reg), l, v, 0),
                                v, Reg(a.reg)>>),
                       reg |-> a.reg]
                 ELSE [st |-> Crash(R1, "getInReg:abort"), reg |-> a.reg]

\* An indeterminate value read through *locations.begin() of an empty set.
IndeterminateLoc == [type |-> "Scratch", n |-> -8]

\* The builds' treatments of getInReg on a variable that is neither a
\* constant nor a scratch allocation and has no location.
WildOutcomes == {"assert", "memory", "abort"}

\* getInReg(dest, true) on such a variable v: a debug build stops at
\* assert(locations.size()); an NDEBUG build takes the register, reads an
\* indeterminate Location l and either loads from it ("memory": l.type is
\* Scratch or Stack) or calls abort().
getInRegUnlocated(R, v, dest, wild) ==
    LET a == Invoke("allocReg", <<R, dest, AnyReg, scenario.allocatable_regs>>)
    IN  IF wild = "assert"
        THEN Crash(Dbg(R, FALSE, "getInReg:locations"), "getInReg:locations")
        ELSE IF a.st.failed THEN a.st
        ELSE IF wild = "memory"
        THEN Invoke("addLocationToVar", <<
               Emit(a.st, "mov", Reg(a.reg), IndeterminateLoc, v, 0), v, Reg(a.reg)>>)
        ELSE Crash(a.st, "getInReg:abort")

\* RewriterVar::getAttr when the memo holds result: the variable is only
\* asked into dest when dest is a specific register.
getAttrMemoized(R, result, dest, wild) ==
    IF dest = AnyReg THEN R
    ELSE Invoke("getInRegUnlocated", <<R, result, dest, wild>>)

initializeInReg(R, v, l) ==
    LET l1 == IF /\ l.type = "Register" /\ ~R.done_guarding
                 /\ VarAt(R, l) # NULL /\ R.vars[VarAt(R, l)].is_arg
              THEN AnyReg ELSE l
        a == Invoke("allocReg", <<R, l1, AnyReg, scenario.allocatable_regs>>)
        R1 == Dbg(a.st, ~count(a.st, Reg(a.reg)) \/ a.st.failed, "initializeInReg:occupied")
        R2 == Dbg(R1, ~isInLocation(R1.vars[v], Reg(a.reg)), "initializeInReg:in_location")
    IN  [st |-> [SetAt(R2, Reg(a.reg), v) EXCEPT !.vars[v].locations = Append(@, Reg(a.reg))],
         reg |-> a.reg]

allocatable_xmm_regs == 0..(NumXMMRegs - 1)

allocXMMRegChoice(R, dest, otherThan) ==
    IF dest.type = "AnyReg"
    THEN LET free == {x \in allocatable_xmm_regs : XMM(x) # otherThan /\ ~count(R, XMM(x))}
         IN  IF free # {} THEN Min(free)
             ELSE IF otherThan = XMM(1) THEN 2 ELSE 1
    ELSE dest.n

allocXMMRegState(R, dest, otherThan) ==
    IF dest.type \in {"AnyReg", "XMMRegister"}
    THEN LET x == allocXMMRegChoice(R, dest, otherThan)
         IN  IF count(R, XMM(x)) THEN Invoke("spillXMMRegister", <<R, x>>) ELSE R
    ELSE Crash(R, "allocXMMReg:dest_type")

initializeInXMMReg(R, v, l) ==
    LET x == allocXMMRegChoice(R, l, AnyReg)
        R1 == Invoke("allocXMMRegState", <<R, l, AnyReg>>)
        R2 == Dbg(R1, ~count(R1, XMM(x)), "initializeInXMMReg:occupied")
    IN  [st |-> [SetAt(R2, XMM(x), v) EXCEPT !.vars[v].locations = Append(@, XMM(x))],
         reg |-> x]

HasXMMLoc(var) ==
    \E k \in 1..Len(var.locations) : var.locations[k].type = "XMMRegister"

FirstXMMLoc(var) ==
    var.locations[Min({k \in 1..Len(var.locations) : var.locations[k].type = "XMMRegister"})]

getInXMMReg(R, v, dest) ==
    LET var == R.vars[v]
        R0 == Dbg(Dbg(R, ~var.is_constant, "getInXMMReg:constant"),
                  Len(var.locations) > 0, "getInXMMReg:locations")
    IN  IF Len(var.locations) = 0 THEN Crash(R0, "getInXMMReg:no_location")
        ELSE IF isInLocation(var, dest) THEN R0
        ELSE IF HasXMMLoc(var)
        THEN IF dest.type # "AnyReg"
             THEN Invoke("addLocationToVar", <<Emit(R0, "movsd", dest, FirstXMMLoc(var), v, 0), v, dest>>)
             ELSE R0
        ELSE LET l == var.locations[1]
                 R1 == Dbg(Dbg(Dbg(R0, l.type = "Scratch", "getInXMMReg:scratch"),
                               dest.type = "XMMRegister", "getInXMMReg:dest"),
                           ~count(R0, dest), "getInXMMReg:reg_free")
             IN  IF l.type \in {"Scratch", "Stack"} /\ dest.type = "XMMRegister"
                 THEN Invoke("addLocationToVar", <<Emit(R1, "movsd", dest, l, v, 0), v, dest>>)
                 ELSE Crash(R1, "getInXMMReg:bad_location")

(***************************************************************************)
(* assertConsistent: vars_by_location and the location sets agree.         *)
(***************************************************************************)
Consistent(vs, vbl) ==
    /\ \A v \in 1..Len(vs) : \A k \in 1..Len(vs[v].locations) :
          /\ vs[v].locations[k] \in DOMAIN vbl
          /\ vbl[vs[v].locations[k]] = v
    /\ \A l \in DOMAIN vbl :
          vbl[l] # LOCATION_PLACEHOLDER =>
             /\ vbl[l] \in 1..Len(vs)
             /\ isInLocation(vs[vbl[l]], l)

assertConsistent(R, where) ==
    IF Consistent(R.vars, R.vbl) THEN R
    ELSE [R EXCEPT !.chk_log = Append(@, [at |-> where, act |-> R.cur,
                                          failed |-> R.failed])]

(***************************************************************************)
(* Decref info.                                                            *)
(***************************************************************************)
indirectForOffset(l) ==
    IF l.type = "Scratch" THEN scenario.scratch_rsp_offset + l.n ELSE l.n

EligibleDecrefLoc(l) ==
    \/ l.type = "Scratch"
    \/ l.type = "Register" /\ ~isClobberedByCall(l)

\* The scan of one variable's locations in getDecrefLocations:
\* "crash" (a location type the scan does not implement comes first),
\* "none" (every location is a caller-clobbered register) or "found".
DecrefScan(var) ==
    LET n == Len(var.locations)
        elig == {k \in 1..n : EligibleDecrefLoc(var.locations[k])}
        bad == {k \in 1..n : var.locations[k].type \notin {"Scratch", "Register"}}
    IN  IF bad # {} /\ (elig = {} \/ Min(bad) < Min(elig))
        THEN [res |-> "crash", loc |-> NoneLoc]
        ELSE IF elig = {} THEN [res |-> "none", loc |-> NoneLoc]
        ELSE LET l == var.locations[Min(elig)]
             IN  [res |-> "found",
                  loc |-> IF l.type = "Scratch" THEN Stack(indirectForOffset(l)) ELSE l]

\* Variables the decref-info scan considers.
DecrefVars(R) ==
    {v \in 1..Len(R.vars) : Len(R.vars[v].locations) > 0 /\ needsDecref(R.vars[v], R.cur)}

OwnedAttrInfos(R) ==
    {[type |-> "StackIndirect",
      n |-> indirectForOffset(IF Len(R.vars[p[1]].locations) > 0
                              THEN R.vars[p[1]].locations[1]
                              ELSE getScratchLocation(R.vars[p[1]], 0)),
      n2 |-> p[2]] : p \in R.owned_attrs}

\* The assertions of the owned_attrs loop of getDecrefLocations on the pair
\* of variable v: v is accessible, has one location, and that location is
\* a scratch or stack slot.
OwnedAttrAsserts(R, v) ==
    LET var == R.vars[v]
        R1 == Dbg(R, Len(var.locations) > 0 \/ isScratchAllocation(var),
                  "getDecrefLocations:owned_not_accessible")
        R2 == Dbg(R1, Len(var.locations) = 1 \/ isScratchAllocation(var),
                  "getDecrefLocations:one_location")
    IN  IF Len(var.locations) > 0
        THEN Dbg(R2, var.locations[1].type \in {"Scratch", "Stack"},
                 "getDecrefLocations:scratch_or_stack")
        ELSE Dbg(R2, isScratchAllocation(var), "getScratchLocation:scratch_allocation")

RECURSIVE OwnedAttrLoop(_, _)
OwnedAttrLoop(R, todo) ==
    IF todo = {} THEN R
    ELSE LET p == CHOOSE x \in todo : TRUE
         IN  OwnedAttrLoop(OwnedAttrAsserts(R, p[1]), todo \ {p})

getDecrefLocations(R) ==
    LET dv == DecrefVars(R)
        crashes == {v \in dv : DecrefScan(R.vars[v]).res = "crash"}
        nones == {v \in dv : DecrefScan(R.vars[v]).res = "none"}
        upto == IF crashes = {} THEN Len(R.vars) ELSE Min(crashes) - 1
        R1 == IF \E v \in nones : v <= upto THEN [R EXCEPT !.failed = TRUE] ELSE R
        R2 == IF crashes # {} THEN Crash(R1, "getDecrefLocations:not_implemented")
              ELSE OwnedAttrLoop(R1, R1.owned_attrs)
    IN  [st |-> R2,
         locs |-> {[v |-> v, loc |-> DecrefScan(R.vars[v]).loc] :
                      v \in {w \in dv : DecrefScan(R.vars[w]).res = "found"}},
         attrs |-> OwnedAttrInfos(R)]

registerDecrefInfoHere(R) ==
    LET d == Invoke("getDecrefLocations", <<R>>)
    IN  IF d.st.crash # "" THEN d.st
        ELSE [d.st EXCEPT !.decref_infos =
                 Append(@, [ip |-> Len(R.code), act |-> R.cur,
                            locs |-> d.locs, attrs |-> d.attrs])]

(***************************************************************************)
(* Calls, reference counting and releases (mutually recursive in the       *)
(* source: releasing an owned variable emits a decref, which is a call).   *)
(***************************************************************************)
LogCall(R, kind, cargs) ==
    IF R.crash # "" THEN R ELSE
    [R EXCEPT !.call_log =
        Append(@, [kind |-> kind, act |-> R.cur, ip |-> Len(R.code), args |-> cargs,
                   before |-> R.setup, vars |-> R.vars, vbl |-> R.vbl,
                   failed |-> R.failed, guarding |-> ~R.done_guarding,
                   rel |-> R.rel])]

\* _callOptimalEncoding: rel32 when the callee is near, else through tmp_reg.
callOptimalEncoding(R, tmp_reg, kind, cargs) ==
    LET R1 == Dbg(R, ~count(R, Reg(tmp_reg)), "_callOptimalEncoding:tmp_reg")
        R2 == IF scenario.far_calls
              THEN Emit(Invoke("loadConstIntoReg", <<R1, scenario.func_addr, tmp_reg>>),
                        "callq_reg", NoneLoc, Reg(tmp_reg), NULL, 0)
              ELSE Emit(R1, "call_rel32", NoneLoc, NoneLoc, NULL, 0)
    IN  LogCall(R2, kind, cargs)

_incref(R, v) ==
    LET var == R.vars[v]
    IN  IF var.is_constant /\ var.constant_value = ValOf(0) THEN R
        ELSE LET R1 == Dbg(R, ~var.nullable, "_incref:nullable")
             IN  IF isImmediate(var)
                 THEN Emit(R1, "incref", NoneLoc, NoneLoc, v, var.constant_value)
                 ELSE LET g == Invoke("getInReg", <<R1, v, AnyReg, FALSE, AnyReg>>)
                      IN  Emit(g.st, "incref", NoneLoc, Reg(g.reg), v, 0)

RECURSIVE _release(_, _), bumpUse(_, _), BumpAll(_, _, _, _),
          PlaceArgs(_, _, _, _), SpillCallerSave(_, _, _, _),
          _setupCall(_, _, _, _, _, _), _decref(_, _, _), _xdecref(_, _, _),
          _call(_, _, _, _, _, _, _, _)

bumpUseEarlyIfPossible(R, v) ==
    IF R.vars[v].reftype # "OWNED" THEN Invoke("bumpUse", <<R, v>>) ELSE R

bumpUseLateIfNecessary(R, v) ==
    IF R.vars[v].reftype = "OWNED" THEN Invoke("bumpUse", <<R, v>>) ELSE R

\* for (var : list) var->bumpUseEarlyIfPossible() / bumpUseLateIfNecessary()
BumpAll(R, list, k, early) ==
    IF k > Len(list) THEN R
    ELSE Invoke("BumpAll", <<IF early THEN Invoke("bumpUseEarlyIfPossible", <<R, list[k]>>)
                 ELSE Invoke("bumpUseLateIfNecessary", <<R, list[k]>>),
                 list, k + 1, early>>)

EraseAll(R, locs) ==
    [R EXCEPT !.vbl = [x \in (DOMAIN R.vbl) \ locs |-> R.vbl[x]]]

\* Mutant: a release forgets the variable's locations and emits nothing.
_release_no_decref(R, v) ==
    [EraseAll(R, {R.vars[v].locations[k] : k \in 1..Len(R.vars[v].locations)})
        EXCEPT !.vars[v].locations = <<>>,
               !.rel_log = Append(@, [v |-> v, act |-> R.cur, decref |-> "none",
                                      guarding |-> ~R.done_guarding,
                                      stage |-> R.stage])]

_release(R, v) ==
    IF R.crash # "" THEN R ELSE
    LET var == R.vars[v]
        kind == IF var.reftype = "OWNED" /\ ~refHandedOff(var)
                THEN (IF var.nullable THEN "xdecref" ELSE "decref")
                ELSE "none"
        R0 == [R EXCEPT !.rel_log = Append(@, [v |-> v, act |-> R.cur, decref |-> kind,
                                               guarding |-> ~R.done_guarding,
                                               stage |-> R.stage]),
                        !.rel = v]
        R1 == IF kind = "xdecref" THEN Invoke("_xdecref", <<R0, v, <<>>>>)
              ELSE IF kind = "decref" THEN Invoke("_decref", <<R0, v, <<>>>>)
              ELSE R0
        var1 == R1.vars[v]
        R2 == EraseAll(R1, {var1.locations[k] : k \in 1..Len(var1.locations)})
        slots == {getScratchLocation(var1, i * 8) : i \in 0..(var1.scratch_allocation[2] - 1)}
        R3 == IF isScratchAllocation(var1)
              THEN [EraseAll(Dbg(R2, \A l \in slots : VarAt(R2, l) = LOCATION_PLACEHOLDER,
                                 "_release:placeholder"), slots)
                      EXCEPT !.vars[v].scratch_allocation = <<0, 0>>]
              ELSE R2
    IN  [R3 EXCEPT !.vars[v].locations = <<>>, !.rel = R.rel]

\* Mutant: a variable is released at its first use.
bumpUse_release_early(R, v) ==
    _release_no_decref([R EXCEPT !.vars[v].next_use = @ + 1], v)

\* Mutant: an exhausted variable is released whether or not the rewrite is
\* still guarding.
bumpUse_ignores_guarding(R, v) ==
    IF R.vars[v].next_use + 1 = Len(R.vars[v].uses)
    THEN _release_no_decref([R EXCEPT !.vars[v].next_use = @ + 1], v)
    ELSE [R EXCEPT !.vars[v].next_use = @ + 1]

\* Mutant: the cursor moves but an exhausted variable is not released.
bumpUse_no_release(R, v) == [R EXCEPT !.vars[v].next_use = @ + 1]

\* Mutant: an exhausted entry argument is released, its reference
\* dropped, while the rewrite is still guarding.
bumpUse_releases_args(R, v) ==
    IF R.crash # "" THEN R ELSE
    LET R1 == [R EXCEPT !.vars[v].next_use = @ + 1]
    IN  IF R1.vars[v].next_use = Len(R1.vars[v].uses)
        THEN Invoke("_release", <<R1, v>>)
        ELSE R1

bumpUse(R, v) ==
    IF R.crash # "" THEN R ELSE
    LET R1 == [R EXCEPT !.vars[v].next_use = @ + 1]
        var == R1.vars[v]
        R2 == Dbg(R1, var.next_use <= Len(var.uses), "bumpUse:next_use")
    IN  IF var.next_use = Len(var.uses)
        THEN IF ~R2.done_guarding /\ var.is_arg THEN R2 ELSE Invoke("_release", <<R2, v>>)
        ELSE R2

releaseIfNoUses(R, v) ==
    IF Len(R.vars[v].uses) = 0
    THEN Invoke("_release", <<Dbg(R, R.vars[v].next_use = 0, "releaseIfNoUses:next_use"), v>>)
    ELSE R

\* The argument-placement loop of _setupCall from argument k (1-based) on;
\* ret says that _setupCall returned from inside the loop.
PlaceArgs(R, cargs, k, preserve) ==
    IF k > Len(cargs) \/ R.crash # "" THEN [st |-> R, ret |-> FALSE]
    ELSE
      LET l == forArg(k - 1)
          v == cargs[k]
          var == R.vars[v]
      IN  IF isInLocation(var, l) THEN Invoke("PlaceArgs", <<R, cargs, k + 1, preserve>>)
          ELSE IF l.type # "Register"
          THEN [st |-> Crash(R, "_setupCall:asRegister"), ret |-> TRUE]
          ELSE
            LET a == Invoke("allocReg", <<R, l, preserve, scenario.allocatable_regs>>)
                R1 == Dbg(a.st, ~count(a.st, l), "_setupCall:arg_reg_free")
                R2 == IF isImmediate(var)
                      THEN Invoke("addLocationToVar", <<
                             IF var.constant_value = ValOf(0)
                             THEN Emit(R1, "clear_reg", l, NoneLoc, v, 0)
                             ELSE Emit(R1, "mov_imm", l, NoneLoc, v, var.constant_value),
                             v, l>>)
                      ELSE Invoke("getInReg", <<R1, v, l, FALSE, AnyReg>>).st
                R3 == Dbg(R2, isInLocation(R2.vars[v], l), "_setupCall:arg_in_place")
            IN  IF a.st.failed THEN [st |-> a.st, ret |-> TRUE]
                ELSE Invoke("PlaceArgs", <<R3, cargs, k + 1, preserve>>)

\* Mutant: no caller-save register is spilled.
SpillCallerSave_none(R, cargs, k, preserve) == [st |-> R, ret |-> FALSE]

\* The "Spill caller-saved registers" loop of _setupCall from entry k on.
SpillCallerSave(R, cargs, k, preserve) ==
    IF k > Len(caller_save_registers) \/ R.crash # "" THEN [st |-> R, ret |-> FALSE]
    ELSE
      LET check_reg == caller_save_registers[k]
          v == VarAt(R, check_reg)
      IN  IF v = NULL THEN Invoke("SpillCallerSave", <<R, cargs, k + 1, preserve>>)
          ELSE
            LET var == R.vars[v]
                need_to_spill ==
                    /\ \A j \in 1..Len(var.locations) : isClobberedByCall(var.locations[j])
                    /\ ~(InSeq(cargs, v) /\ isDoneUsing(var))
                R1 == IF need_to_spill
                      THEN IF check_reg.type = "Register"
                           THEN Invoke("spillRegisterLogged", <<R, check_reg.n, preserve>>)
                           ELSE Invoke("spillXMMRegister", <<R, check_reg.n>>)
                      ELSE Invoke("removeLocationFromVar", <<R, v, check_reg>>)
            IN  IF need_to_spill /\ R1.failed THEN [st |-> R1, ret |-> TRUE]
                ELSE Invoke("SpillCallerSave", <<R1, cargs, k + 1, preserve>>)

_setupCall(R, has_side_effects, cargs, cargs_xmm, preserve, bump_if_possible) ==
    IF R.crash # "" THEN R ELSE
    LET R0 == IF has_side_effects
              THEN Emit(Dbg(R, R.done_guarding, "_setupCall:done_guarding"),
                        "nops_to_header", NoneLoc, NoneLoc, NULL, IC_INVALDITION_HEADER_SIZE)
              ELSE R
        R1 == IF has_side_effects /\ scenario.needs_invalidation_support /\ ~R0.marked_inside_ic
              THEN LET a == Invoke("allocReg", <<R0, AnyReg, preserve, scenario.allocatable_regs>>)
                       Ra == IF isLargeConstant(scenario.counter_addr)
                             THEN Emit(Invoke("loadConstIntoReg", <<a.st, scenario.counter_addr, a.reg>>),
                                       "incl", NoneLoc, Reg(a.reg), NULL, 0)
                             ELSE Emit(R0, "incl", NoneLoc, NoneLoc, NULL, scenario.counter_addr)
                   IN  [assertConsistent(Ra, "_setupCall:counter") EXCEPT !.marked_inside_ic = TRUE]
              ELSE R0
        p == Invoke("PlaceArgs", <<R1, cargs, 1, preserve>>)
        R2 == assertConsistent(p.st, "_setupCall:args")
        R3 == Dbg(R2, \A i \in 1..Len(cargs_xmm) : isInLocation(R2.vars[cargs_xmm[i]], XMM(i - 1)),
                  "_setupCall:xmm_arg_in_place")
        R4 == Invoke("BumpAll", <<R3, bump_if_possible, 1, TRUE>>)
        s == Invoke("SpillCallerSave", <<R4, cargs, 1, preserve>>)
        R5 == assertConsistent(s.st, "_setupCall:spilled")
        R6 == IF p.ret THEN p.st
              ELSE IF s.ret THEN s.st
              ELSE Dbg(R5, \A l \in DOMAIN R5.vbl : ~isClobberedByCall(l),
                       "_setupCall:clobbered_mapped")
    IN  [R6 EXCEPT !.setup = R.vars]

_decref(R, v, vars_to_bump) ==
    IF R.crash # "" THEN R ELSE
    LET R0 == Dbg(R, ~R.vars[v].nullable, "_decref:nullable")
        R1 == Invoke("_setupCall", <<R0, TRUE, <<v>>, <<>>, Reg(RAX), vars_to_bump>>)
        R2 == Emit(R1, "decref", NoneLoc, Reg(RDI), v, 0)
        R3 == Emit(R2, "mov_load", Reg(RAX), Reg(RDI), NULL, 0)
        R4 == LogCall(Emit(R3, "callq_mem", NoneLoc, Reg(RAX), v, 0), "dealloc", <<v>>)
    IN  Invoke("BumpAll", <<R4, vars_to_bump, 1, FALSE>>)

_xdecref(R, v, vars_to_bump) ==
    IF R.crash # "" THEN R ELSE
    Invoke("_call", <<Dbg(R, R.vars[v].nullable, "_xdecref:nullable"),
          NULL, TRUE, FALSE, "xdecref", <<v>>, <<>>, vars_to_bump>>)

_call(R, result, has_side_effects, can_throw, kind, cargs, cargs_xmm, vars_to_bump) ==
    IF R.crash # "" THEN R ELSE
    LET a == Invoke("allocReg", <<R, Reg(R11), AnyReg, scenario.allocatable_regs>>)
        R1 == Invoke("_setupCall", <<a.st, has_side_effects, cargs, cargs_xmm, Reg(R11), vars_to_bump>>)
        R2 == assertConsistent(R1, "_call:setup")
        R3 == Invoke("callOptimalEncoding", <<R2, a.reg, kind, cargs>>)
        R4 == IF can_throw THEN Invoke("registerDecrefInfoHere", <<R3>>) ELSE R3
        R5 == IF ~R4.failed
              THEN LET Ra == Dbg(R4, ~count(R4, Reg(RAX)), "_call:rax_free")
                       Rb == IF result # NULL THEN Invoke("initializeInReg", <<Ra, result, Reg(RAX)>>).st ELSE Ra
                   IN  assertConsistent(Rb, "_call:result")
              ELSE R4
        R6 == IF result # NULL /\ R5.crash = "" THEN Invoke("releaseIfNoUses", <<R5, result>>) ELSE R5
    IN  IF a.st.failed THEN a.st
        ELSE Invoke("BumpAll", <<R6, vars_to_bump, 1, FALSE>>)

(***************************************************************************)
(* Guards.                                                                 *)
(***************************************************************************)
\* GenericRegister::fromDwarf as a Location (DWARF numbering of x86-64).
fromDwarf(dwarf_regnum) ==
    IF dwarf_regnum = 1 THEN Reg(RDX)
    ELSE IF dwarf_regnum = 2 THEN Reg(RCX)
    ELSE IF dwarf_regnum = 4 THEN Reg(RSI)
    ELSE IF dwarf_regnum = 5 THEN Reg(RDI)
    ELSE IF dwarf_regnum = 6 THEN Reg(RBP)
    ELSE IF dwarf_regnum = 7 THEN Reg(RSP)
    ELSE IF dwarf_regnum >= 17 THEN XMM(dwarf_regnum - 17)
    ELSE Reg(dwarf_regnum)

RECURSIVE RestoreArgLoop(_, _), RestoreLiveOutLoop(_, _)

\* First loop of restoreArgs, from argument i (1-based) on.
RestoreArgLoop(R, i) ==
    IF i > Len(args) \/ R.crash # "" THEN R
    ELSE
      LET v == args[i]
          l == forArg(i - 1)
          R1 == Invoke("bumpUse", <<R, v>>)
      IN  IF l.type = "Stack" \/ isInLocation(R1.vars[v], l)
          THEN Invoke("RestoreArgLoop", <<R1, i + 1>>)
          ELSE LET a == Invoke("allocReg", <<R1, l, AnyReg, scenario.allocatable_regs>>)
               IN  Invoke("RestoreArgLoop", <<Invoke("getInReg", <<a.st, v, l, FALSE, AnyReg>>).st, i + 1>>)

\* Second loop of restoreArgs: the general-purpose live-outs.
RestoreLiveOutLoop(R, i) ==
    IF i > Len(live_outs) \/ R.crash # "" THEN R
    ELSE
      LET v == live_outs[i]
          l == fromDwarf(live_out_regs[i])
      IN  IF l.type # "Register" \/ isInLocation(R.vars[v], l)
          THEN Invoke("RestoreLiveOutLoop", <<R, i + 1>>)
          ELSE LET a == Invoke("allocReg", <<R, l, AnyReg, scenario.allocatable_regs>>)
                   R1 == Invoke("getInReg", <<a.st, v, l, FALSE, AnyReg>>).st
               IN  Invoke("RestoreLiveOutLoop", <<
                     Dbg(R1, isInLocation(R1.vars[v], l), "restoreArgs:live_out_in_place"),
                     i + 1>>)

ArgsInPlace(R) ==
    /\ \A i \in 1..Len(args) : isInLocation(R.vars[args[i]], R.vars[args[i]].arg_loc)
    /\ \A i \in 1..Len(live_outs) :
          isInLocation(R.vars[live_outs[i]], fromDwarf(live_out_regs[i]))

assertArgsInPlace(R) ==
    Dbg(Dbg(R, ~R.done_guarding, "assertArgsInPlace:done_guarding"),
        ArgsInPlace(R), "assertArgsInPlace")

restoreArgs(R) ==
    assertArgsInPlace(
      Invoke("RestoreLiveOutLoop", <<Invoke("RestoreArgLoop", <<Dbg(R, ~R.done_guarding, "restoreArgs:done_guarding"), 1>>), 1>>))

\* _nextSlotJump: the conditional jump to the slow path.  The allocator
\* state at the jump is noted in jmp_log.
nextSlotJump(R, condition) ==
    LET R1 == Emit(R, "jmp_cond", NoneLoc, NoneLoc, NULL, 0)
    IN  [R1 EXCEPT !.jmp_log =
            Append(@, [act |-> R.cur, cond |-> condition, ip |-> Len(R.code),
                       vars |-> R.vars, vbl |-> R.vbl, failed |-> R.failed])]

\* One compare of a guard as _addGuard emitted it: the variable and its
\* register, the constant and its register (None when the constant is an
\* immediate), and the allocator's state when _addGuard began, when the
\* variable was in its register, and when the compare had been emitted.
LogCompare(R, v, val_constant, var_reg, reg, before, mid) ==
    IF R.crash # "" THEN R ELSE
    [R EXCEPT !.alloc_log =
        Append(@, [kind |-> "compare", v |-> v, c |-> val_constant,
                   var_reg |-> var_reg, reg |-> reg, act |-> R.cur,
                   before |-> before, mid |-> mid, after |-> AllocatorState(R)])]

_addGuard(R, v, val_constant, negate) ==
    LET val == R.vars[val_constant].constant_value
        g == Invoke("getInReg", <<R, v, AnyReg, FALSE, AnyReg>>)
        c == Invoke("getInReg", <<g.st, val_constant, AnyReg, TRUE, Reg(g.reg)>>)
        R1 == IF isLargeConstant(val)
              THEN LogCompare(Emit(c.st, "cmp", Reg(g.reg), Reg(c.reg), v, 0),
                              v, val_constant, g.reg, Reg(c.reg),
                              AllocatorState(R), AllocatorState(g.st))
              ELSE LogCompare(IF val = ValOf(0)
                              THEN Emit(g.st, "test", Reg(g.reg), Reg(g.reg), v, 0)
                              ELSE Emit(g.st, "cmp_imm", Reg(g.reg), NoneLoc, v, val),
                              v, val_constant, g.reg, NoneLoc,
                              AllocatorState(R), AllocatorState(g.st))
        R2 == assertArgsInPlace(Invoke("restoreArgs", <<R1>>))
        R3 == nextSlotJump(R2, IF negate THEN "COND_EQUAL" ELSE "COND_NOT_EQUAL")
    IN  assertConsistent(Invoke("bumpUse", <<Invoke("bumpUse", <<R3, v>>), val_constant>>), "_addGuard")

_addAttrGuard(R, v, offset, val_constant, negate) ==
    LET val == R.vars[val_constant].constant_value
        g == Invoke("getInReg", <<R, v, AnyReg, TRUE, AnyReg>>)
        c == IF val_constant = v THEN g
             ELSE Invoke("getInReg", <<g.st, val_constant, AnyReg, TRUE, Reg(g.reg)>>)
        R1 == IF isLargeConstant(val)
              THEN Emit(c.st, "cmp_mem", Reg(g.reg), Reg(c.reg), v, offset)
              ELSE Emit(g.st, "cmp_mem_imm", Reg(g.reg), NoneLoc, v, offset)
        R2 == assertArgsInPlace(Invoke("restoreArgs", <<R1>>))
        R3 == nextSlotJump(R2, IF negate THEN "COND_EQUAL" ELSE "COND_NOT_EQUAL")
    IN  assertConsistent(Invoke("bumpUse", <<Invoke("bumpUse", <<R3, v>>), val_constant>>),
                         "_addAttrGuard")

(***************************************************************************)
(* Attribute loads, explicit refcount operations, the return value.        *)
(***************************************************************************)
_getAttr(R, result, ptr, offset, dest) ==
    LET g == Invoke("getInReg", <<R, ptr, AnyReg, TRUE, AnyReg>>)
        R1 == Invoke("bumpUseEarlyIfPossible", <<g.st, ptr>>)
        i == Invoke("initializeInReg", <<R1, result, dest>>)
        R2 == IF ~R1.failed /\ R1.crash = ""
              THEN Emit(i.st, "mov_load", Reg(i.reg), Reg(g.reg), result, offset)
              ELSE R1
        R3 == Invoke("releaseIfNoUses", <<R2, result>>)
    IN  assertConsistent(Invoke("bumpUseLateIfNecessary", <<R3, ptr>>), "_getAttr")

\* sete and setne have special register requirements.
set_inst_valid_registers == {RAX, RBX, RCX, RDX}

_cmp(R, result, v1, cmp_type, v2, dest) ==
    LET g1 == Invoke("getInReg", <<R, v1, AnyReg, FALSE, dest>>)
        g2 == Invoke("getInReg", <<g1.st, v2, AnyReg, FALSE, dest>>)
        R1 == Dbg(g2.st, g1.reg # g2.reg, "_cmp:same_register")
        R2 == Invoke("bumpUseEarlyIfPossible", <<
                 Invoke("bumpUseEarlyIfPossible", <<R1, v1>>), v2>>)
        a == Invoke("allocReg", <<R2, dest, AnyReg,
                                  set_inst_valid_registers \cap scenario.allocatable_regs>>)
        i == Invoke("initializeInReg", <<a.st, result, Reg(a.reg)>>)
        R3 == Emit(Emit(i.st, "cmp", Reg(g1.reg), Reg(g2.reg), v1, 0),
                   IF cmp_type = "Eq" THEN "sete" ELSE "setne",
                   Reg(a.reg), NoneLoc, result, 0)
        R4 == Invoke("bumpUseLateIfNecessary", <<
                 Invoke("bumpUseLateIfNecessary", <<R3, v1>>), v2>>)
    IN  assertConsistent(Invoke("releaseIfNoUses", <<R4, result>>), "_cmp")

_toBool(R, result, v, dest) ==
    LET g == Invoke("getInReg", <<R, v, AnyReg, FALSE, AnyReg>>)
        R1 == Invoke("bumpUseEarlyIfPossible", <<g.st, v>>)
        a == Invoke("allocReg", <<R1, dest, AnyReg, scenario.allocatable_regs>>)
        i == Invoke("initializeInReg", <<a.st, result, Reg(a.reg)>>)
        R2 == Emit(Emit(i.st, "test", Reg(g.reg), Reg(g.reg), v, 0),
                   "setnz", Reg(a.reg), NoneLoc, result, 0)
        R3 == Invoke("bumpUseLateIfNecessary", <<R2, v>>)
    IN  assertConsistent(Invoke("releaseIfNoUses", <<R3, result>>), "_toBool")

RECURSIVE AllocateScan(_, _, _, _), MarkSlots(_, _, _), CopyLoop(_, _, _, _, _, _)

\* Mutant: the scan does not start over at an occupied slot.
AllocateScan_counts_on(R, i, consec, n) ==
    IF i * 8 >= scenario.scratch_size THEN -1
    ELSE IF count(R, Scratch(i * 8)) THEN AllocateScan(R, i + 1, consec, n)
    ELSE IF consec + 1 = n THEN i - n + 1
    ELSE AllocateScan(R, i + 1, consec + 1, n)

\* The scan of _allocate from slot i with consec free slots just before
\* it: the first slot of the run found, or -1.
AllocateScan(R, i, consec, n) ==
    IF i * 8 >= scenario.scratch_size THEN -1
    ELSE IF count(R, Scratch(i * 8)) THEN AllocateScan(R, i + 1, 0, n)
    ELSE IF consec + 1 = n THEN i - n + 1
    ELSE AllocateScan(R, i + 1, consec + 1, n)

\* vars_by_location[m] = LOCATION_PLACEHOLDER for the slots a..b.
MarkSlots(R, a, b) ==
    IF a > b THEN R
    ELSE MarkSlots(SetAt(Dbg(R, ~count(R, Scratch(a * 8)), "_allocate:occupied"),
                         Scratch(a * 8), LOCATION_PLACEHOLDER),
                   a + 1, b)

\* A call of _allocate, noted in alloc_log with the slot it returned.
LogAllocate(R, result, n, a, before) ==
    [R EXCEPT !.alloc_log =
        Append(@, [kind |-> "allocate", result |-> result, n |-> n, a |-> a,
                   act |-> R.cur, before |-> before, after |-> AllocatorState(R)])]

\* _allocate: st is the rewriter afterwards, a the slot it returns.
_allocate(R, result, n) ==
    LET R0 == Dbg(R, n >= 1, "_allocate:n")
        a == AllocateScan(R0, 0, 0, n)
        R1 == Dbg(MarkSlots(R0, a, a + n - 1), R0.vars[result].scratch_allocation = <<0, 0>>,
                  "_allocate:scratch_allocation")
        R2 == assertConsistent([R1 EXCEPT !.vars[result].scratch_allocation = <<a, n>>],
                               "_allocate")
    IN  IF a < 0
        THEN [st |-> LogAllocate([R0 EXCEPT !.failed = TRUE], result, n, 0,
                                 AllocatorState(R)),
              a |-> 0]
        ELSE [st |-> LogAllocate(Invoke("releaseIfNoUses", <<R2, result>>), result, n, a,
                                 AllocatorState(R)),
              a |-> a]

\* The copy loop of _allocateAndCopy from element i on.
CopyLoop(R, src_ptr, tmp, offset, i, n) ==
    IF i >= n THEN R
    ELSE CopyLoop(Emit(Emit(R, "mov_load", Reg(tmp), Reg(src_ptr), NULL, 8 * i),
                       "mov_store", Scratch(8 * (offset + i)), Reg(tmp), NULL, 0),
                  src_ptr, tmp, offset, i + 1, n)

_allocateAndCopy(R, result, array_ptr, n) ==
    LET al == Invoke("_allocate", <<R, result, n>>)
        g == Invoke("getInReg", <<al.st, array_ptr, AnyReg, FALSE, AnyReg>>)
        t == Invoke("allocReg", <<g.st, AnyReg, Reg(g.reg), scenario.allocatable_regs>>)
        R1 == CopyLoop(Dbg(t.st, t.reg # g.reg, "_allocateAndCopy:tmp"),
                       g.reg, t.reg, al.a, 0, n)
        R2 == Invoke("bumpUse", <<R1, array_ptr>>)
    IN  assertConsistent(Invoke("releaseIfNoUses", <<R2, result>>), "_allocateAndCopy")

\* The closure of Rewriter::allocate.
allocate_action(R, result, n) == Invoke("_allocate", <<R, result, n>>).st

\* _setAttr with the store left out.
_setAttr_unstored(R, ptr, offset, val) ==
    assertConsistent(Invoke("bumpUse", <<Invoke("bumpUse", <<R, ptr>>), val>>), "_setAttr")

\* _setAttr: the store of val into [ptr + offset], or into the scratch
\* slots ptr owns.  A stored scratch allocation stops being one.
_setAttr(R, ptr, offset, val) ==
    LET in_scratch == isScratchAllocation(R.vars[ptr])
        imm == isImmediate(R.vars[val])
        p == IF in_scratch THEN [st |-> R, reg |-> RAX]
             ELSE Invoke("getInReg", <<R, ptr, AnyReg, FALSE, AnyReg>>)
        dest_loc == IF in_scratch THEN getScratchLocation(R.vars[ptr], offset)
                    ELSE Reg(p.reg)
        g == IF imm THEN p
             ELSE Invoke("getInReg", <<p.st, val, AnyReg, FALSE,
                                      IF in_scratch THEN AnyReg ELSE Reg(p.reg)>>)
        R1 == IF imm
              THEN Emit(g.st, "mov_store_imm", dest_loc, NoneLoc, val,
                        R.vars[val].constant_value)
              ELSE Emit(Dbg(g.st, in_scratch \/ p.reg # g.reg, "_setAttr:ptr_reg"),
                        "mov_store", dest_loc, Reg(g.reg), val,
                        IF in_scratch THEN 0 ELSE offset)
        R2 == Invoke("bumpUse", <<R1, ptr>>)
        R3 == IF R2.crash = "" /\ isScratchAllocation(R2.vars[val])
              THEN [R2 EXCEPT !.vars[val].scratch_allocation = <<0, 0>>]
              ELSE R2
    IN  assertConsistent(Invoke("bumpUse", <<R3, val>>), "_setAttr")

\* The closures of RewriterVar::incref, decref and xdecref.
incref_action(R, v) == Invoke("bumpUse", <<Invoke("_incref", <<R, v>>), v>>)

decref_action(R, v) == Invoke("_decref", <<R, v, <<v>>>>)

xdecref_action(R, v) == Invoke("_xdecref", <<R, v, <<v>>>>)

\* The closures of registerOwnedAttr and deregisterOwnedAttr.
registerOwnedAttr_action(R, v, byte_offset) ==
    LET R1 == Dbg(R, <<v, byte_offset>> \notin R.owned_attrs, "registerOwnedAttr:registered")
    IN  Invoke("bumpUse", <<[R1 EXCEPT !.owned_attrs = @ \cup {<<v, byte_offset>>}], v>>)

deregisterOwnedAttr_action(R, v, byte_offset) ==
    LET R1 == Dbg(R, <<v, byte_offset>> \in R.owned_attrs, "deregisterOwnedAttr:unregistered")
    IN  Invoke("bumpUse", <<[R1 EXCEPT !.owned_attrs = @ \ {<<v, byte_offset>>}], v>>)

\* The closure of commitReturning / commitReturningNonPython.
returning_action(R, v) ==
    Invoke("bumpUse", <<Invoke("getInReg", <<R, v, scenario.return_location, TRUE, AnyReg>>).st, v>>)

\* actions[i].action()
RunAction(R, a) ==
    IF a.kind = "getAttr" THEN Invoke("_getAttr", <<R, a.result, a.v, a.offset, a.dest>>)
    ELSE IF a.kind = "cmp"
    THEN Invoke("_cmp", <<R, a.result, a.v, IF a.negate THEN "NotEq" ELSE "Eq", a.val, a.dest>>)
    ELSE IF a.kind = "toBool" THEN Invoke("_toBool", <<R, a.result, a.v, a.dest>>)
    ELSE IF a.kind = "guard" THEN Invoke("_addGuard", <<R, a.v, a.val, a.negate>>)
    ELSE IF a.kind = "attrGuard"
    THEN Invoke("_addAttrGuard", <<R, a.v, a.offset, a.val, a.negate>>)
    ELSE IF a.kind = "call"
    THEN Invoke("_call", <<R, a.result, a.has_side_effects, TRUE, "call", a.args, <<>>, a.args>>)
    ELSE IF a.kind = "registerOwnedAttr"
    THEN Invoke("registerOwnedAttr_action", <<R, a.v, a.offset>>)
    ELSE IF a.kind = "deregisterOwnedAttr"
    THEN Invoke("deregisterOwnedAttr_action", <<R, a.v, a.offset>>)
    ELSE IF a.kind = "allocate" THEN Invoke("allocate_action", <<R, a.result, a.n>>)
    ELSE IF a.kind = "allocateAndCopy"
    THEN Invoke("_allocateAndCopy", <<R, a.result, a.v, a.n>>)
    ELSE IF a.kind = "setAttr" THEN Invoke("_setAttr", <<R, a.v, a.offset, a.val>>)
    ELSE IF a.kind = "incref" THEN Invoke("incref_action", <<R, a.v>>)
    ELSE IF a.kind = "decref" THEN Invoke("decref_action", <<R, a.v>>)
    ELSE IF a.kind = "xdecref" THEN Invoke("xdecref_action", <<R, a.v>>)
    ELSE Invoke("returning_action", <<R, a.v>>)

(***************************************************************************)
(* Rewriter::commit, in pieces: what runs before the first action, one     *)
(* turn of the action loop, and what runs after the last action.           *)
(***************************************************************************)
RECURSIVE ReleaseDoneArgs(_, _), IncrefConsumed(_, _, _, _), PushUses(_, _, _, _),
          LiveOutPass(_, _, _), LiveOutSweep(_, _), BumpConstants(_, _), BumpLiveOuts(_, _),
          RemoveOtherLocations(_, _, _, _, _)

\* for (l : copy of var->locations) if (l != expected) removeLocationFromVar(var, l)
RemoveOtherLocations(R, v, locs, k, expected) ==
    IF k > Len(locs) THEN R
    ELSE Invoke("RemoveOtherLocations", <<IF locs[k] = expected THEN R
                              ELSE Invoke("removeLocationFromVar", <<R, v, locs[k]>>),
                              v, locs, k + 1, expected>>)

\* for (var : list) var->uses.push_back(n)
PushUses(vs, list, k, n) ==
    IF k > Len(list) THEN vs
    ELSE PushUses([vs EXCEPT ![list[k]].uses = Append(@, n)], list, k + 1, n)

ReleaseDoneArgs(R, i) ==
    IF i > Len(args) \/ R.crash # "" THEN R
    ELSE Invoke("ReleaseDoneArgs", <<IF R.vars[args[i]].next_use = Len(R.vars[args[i]].uses)
                         THEN Invoke("_release", <<R, args[i]>>) ELSE R,
                         i + 1>>)

on_done_guarding(R) ==
    assertConsistent(Invoke("ReleaseDoneArgs", <<[R EXCEPT !.done_guarding = TRUE], 1>>), "on_done_guarding")

\* Mutant: no incref is ever inserted in front of an action.
IncrefConsumed_none(R, consumed_refs, k, i) == R

\* "add increfs if required": the consumed_refs of action i (0-based), from
\* entry k on.
IncrefConsumed(R, consumed_refs, k, i) ==
    IF k > Len(consumed_refs) \/ R.crash # "" THEN R
    ELSE
      LET v == consumed_refs[k]
          var == R.vars[v]
          handoff == refHandedOff(var)
          last_used_action_id ==
              IF var.last_refconsumed_numuses \in 1..Len(var.uses)
              THEN var.uses[var.last_refconsumed_numuses] ELSE -1
          R1 == IF handoff
                THEN Dbg(Dbg(R, var.last_refconsumed_numuses \in 1..Len(var.uses),
                             "commit:last_refconsumed_numuses"),
                         last_used_action_id >= i, "commit:last_used_action_id")
                ELSE R
      IN  IF handoff /\ last_used_action_id = i
          THEN Invoke("IncrefConsumed", <<R1, consumed_refs, k + 1, i>>)
          ELSE Invoke("IncrefConsumed", <<
                 Invoke("_incref", <<Dbg(R1, R1.done_guarding, "commit:isDoneGuarding"), v>>),
                 consumed_refs, k + 1, i>>)

\* One turn of "for (int i = 0; i < actions.size(); i++)", up to the test of
\* failed.
EmitOne(R, i) ==
    LET R1 == Invoke("IncrefConsumed", <<[R EXCEPT !.pre = i, !.stage = "incref"],
                                         actions[i + 1].consumed_refs, 1, i>>)
    IN  Invoke("RunAction", <<[R1 EXCEPT !.cur = i, !.pre = -1, !.stage = "action",
                                         !.run_log = Append(@, i)],
                              actions[i + 1]>>)

\* The rest of the turn when failed is not set.
AfterAction(R, i) ==
    LET R1 == assertConsistent([R EXCEPT !.stage = "after"], "commit:action")
    IN  IF i = last_guard_action THEN Invoke("on_done_guarding", <<R1>>) ELSE R1

\* Mutant: the counter is never decremented.
CounterEpilogue_none(R) == R

\* The decrement of the slot's num_inside counter.
CounterEpilogue(R) ==
    IF ~R.marked_inside_ic THEN R
    ELSE IF isLargeConstant(scenario.counter_addr)
    THEN LET a == Invoke("allocReg", <<R, AnyReg, scenario.return_location, scenario.allocatable_regs>>)
         IN  Emit(Invoke("loadConstIntoReg", <<a.st, scenario.counter_addr, a.reg>>),
                  "decl", NoneLoc, Reg(a.reg), NULL, 0)
    ELSE Emit(R, "decl", NoneLoc, NoneLoc, NULL, scenario.counter_addr)

BumpConstants(R, v) ==
    IF v > Len(R.vars) \/ R.crash # "" THEN R
    ELSE Invoke("BumpConstants", <<IF R.vars[v].is_constant THEN Invoke("bumpUse", <<R, v>>) ELSE R, v + 1>>)

\* One pass of the live-out placement over live-outs i.. ; moved is the set
\* of live-out indices already in place.
LiveOutPass(st, moved, i) ==
    IF i > Len(live_outs) \/ st.crash # "" THEN [st |-> st, moved |-> moved]
    ELSE IF i \in moved THEN Invoke("LiveOutPass", <<st, moved, i + 1>>)
    ELSE
      LET expected == fromDwarf(live_out_regs[i])
          v == live_outs[i]
      IN  IF isInLocation(st.vars[v], expected)
          THEN Invoke("LiveOutPass", <<st, moved \cup {i}, i + 1>>)
          ELSE IF count(st, expected) THEN Invoke("LiveOutPass", <<st, moved, i + 1>>)
          ELSE
            LET R1 == IF expected.type = "Register"
                      THEN Invoke("getInReg", <<st, v, expected, FALSE, AnyReg>>).st
                      ELSE Invoke("getInXMMReg", <<st, v, expected>>)
                R2 == Invoke("RemoveOtherLocations", <<R1, v, R1.vars[v].locations, 1, expected>>)
            IN  Invoke("LiveOutPass", <<R2, moved \cup {i}, i + 1>>)

\* One iteration of the while loop of the placement, noted in alloc_log:
\* the live-outs in place before and after it, and the allocator's state
\* before and after it.
LogSweep(R, moved, placed, before) ==
    [R EXCEPT !.alloc_log =
        Append(@, [kind |-> "sweep", moved |-> moved, placed |-> placed, act |-> R.cur,
                   before |-> before, after |-> AllocatorState(R)])]

\* Mutant: the live-outs are left wherever the actions put them.
LiveOutSweep_skipped(R, moved) == R

\* Mutant: one sweep only.
LiveOutSweep_one_pass(R, moved) ==
    IF Cardinality(moved) = Len(live_outs) \/ R.crash # "" THEN R
    ELSE LET p == Invoke("LiveOutPass", <<R, moved, 1>>)
         IN  LogSweep(p.st, moved, p.moved, AllocatorState(R))

LiveOutSweep(R, moved) ==
    IF Cardinality(moved) = Len(live_outs) \/ R.crash # "" THEN R
    ELSE LET p == Invoke("LiveOutPass", <<R, moved, 1>>)
             S == LogSweep(p.st, moved, p.moved, AllocatorState(R))
         IN  IF Cardinality(p.moved) > Cardinality(moved)
             THEN Invoke("LiveOutSweep", <<S, p.moved>>)
             ELSE Crash(S, "commit:live_out_sweep_no_progress")

BumpLiveOuts(R, i) ==
    IF i > Len(live_outs) \/ R.crash # "" THEN R
    ELSE Invoke("BumpLiveOuts", <<
           Invoke("bumpUse", <<Dbg(R, R.vars[live_outs[i]].reftype = "UNKNOWN", "commit:live_out_reftype"),
                   live_outs[i]>>),
           i + 1>>)

NumAsLiveOut(v) == Cardinality({i \in 1..Len(live_outs) : live_outs[i] = v})

\* finishAssembly: the slot calls it back from rewrite->commit; it ends
\* the code with the jump to the continuation.
finishAssembly_no_jump(R) == R

finishAssembly(R) == Emit(R, "jmp", NoneLoc, NoneLoc, NULL, 0)

\* commit() from the end of the action loop to the call of rewrite->commit,
\* which calls finishAssembly back; when the assembler has run past the end
\* of the slot before that (overflow = "code") the slot is not called.
CommitTail(R, overflow) ==
    LET R1 == Invoke("CounterEpilogue", <<[R EXCEPT !.stage = "tail"]>>)
        R2 == Dbg(R1, \A v \in 1..Len(R1.vars) :
                         R1.vars[v].next_use + NumAsLiveOut(v)
                            + (IF R1.vars[v].is_constant THEN 1 ELSE 0) = Len(R1.vars[v].uses),
                  "commit:uses_accounted")
        R3 == Invoke("BumpConstants", <<R2, 1>>)
        R4 == Invoke("LiveOutSweep", <<[R3 EXCEPT !.stage = "live_outs"], {}>>)
        R5 == Dbg(R4, \A i \in 1..Len(live_outs) :
                         isInLocation(R4.vars[live_outs[i]], fromDwarf(live_out_regs[i])),
                  "commit:live_out_in_place")
        R6 == Invoke("BumpLiveOuts", <<[R5 EXCEPT !.end_log = Append(@, [vars |-> R5.vars, vbl |-> R5.vbl,
                                                             failed |-> R5.failed])], 1>>)
        R7 == Dbg(R6, \A v \in 1..Len(R6.vars) : R6.vars[v].next_use = Len(R6.vars[v].uses),
                  "commit:next_use_at_end")
        Rend == Dbg(R7, \A l \in DOMAIN R7.vbl : R7.vbl[l] = LOCATION_PLACEHOLDER,
                    "commit:only_placeholders")
    IN  IF overflow = "code" THEN [Rend EXCEPT !.stage = "finish"]
        ELSE finishAssembly([Rend EXCEPT !.stage = "finish"])

(***************************************************************************)
(* The rewrites explored.  A scenario fixes what the constructor and the   *)
(* slot hand to the rewriter, and which client operations are drawn.       *)
(***************************************************************************)
MaxActions == 3
MaxConsumes == 1

\* Calls of addAttrGuard that repeat an earlier one, per rewrite.
MaxDupGuards == 1

\* Calls of getAttr answered from the memo, per rewrite.
MaxMemoHits == 1

LargeVal == Val(8, 0)

\* The objects a client may pin.  Each starts with the one reference its
\* owner holds.
PyObjects == {"a", "b"}

MaxPins == 2

BaseScenario ==
    [name |-> "base", num_args |-> 1, live_out_regs |-> <<>>,
     allocatable_regs |-> std_allocatable_regs,
     scratch_size |-> 16, scratch_rsp_offset |-> 40, needs_invalidation_support |-> TRUE,
     far_calls |-> FALSE, func_addr |-> Val(8, 4096), counter_addr |-> ValOf(4096),
     return_location |-> Reg(RAX), prepare_ok |-> {TRUE},
     ops |-> {"commit"}, used_args |-> {1},
     offsets |-> {16}, dests |-> {AnyReg}, vals |-> {ValOf(7)}, side_effects |-> {TRUE},
     call_arity |-> {1}, arg_lists |-> {}, negates |-> {FALSE},
     prev_nullables |-> {FALSE}, sizes |-> {1},
     attr_guards |-> {}, guards |-> {}, cmps |-> {}, tobools |-> {}, arg_types |-> {"BORROWED"},
     result_types |-> {"OWNED"}, typed_consts |-> FALSE, more_consumes |-> 0,
     overflows |-> {"none"}]

\* Guards of both senses on an argument and on constants, against zero,
\* a small value and a large one.
CompareScenario ==
    [BaseScenario EXCEPT !.name = "compare",
                         !.guards = {<<1, ValOf(0), FALSE>>, <<1, ValOf(7), FALSE>>,
                                     <<1, LargeVal, FALSE>>, <<1, ValOf(0), TRUE>>,
                                     <<1, LargeVal, TRUE>>, <<2, ValOf(7), FALSE>>,
                                     <<2, LargeVal, FALSE>>, <<2, LargeVal, TRUE>>},
                         !.ops = {"guard", "commit"}]

\* Loads, calls without side effects and guards on one argument, one
\* scratch slot.
GuardScenario ==
    [BaseScenario EXCEPT !.name = "guards", !.scratch_size = 8,
                         !.dests = {AnyReg, Reg(RDI)}, !.side_effects = {FALSE},
                         !.vals = {LargeVal},
                         !.ops = {"getAttr", "guard", "call", "commit", "abort"}]

\* An owned attribute of the argument registered and deregistered around
\* calls that may throw.
OwnedCallScenario ==
    [BaseScenario EXCEPT !.name = "ownedcalls", !.arg_lists = {<<>>, <<1>>},
                         !.ops = {"registerOwnedAttr", "deregisterOwnedAttr", "call",
                                  "commit"}]

\* Calls that take the owned argument once or twice and may consume each
\* reference passed.
HandoffScenario ==
    [BaseScenario EXCEPT !.name = "handoff", !.arg_types = {"OWNED"},
                         !.more_consumes = 1, !.arg_lists = {<<1>>, <<1, 1>>},
                         !.ops = {"setType", "call", "refConsumed", "commit"}]

\* Calls that take an owned constant and may consume its reference.
OwnedConstScenario ==
    [BaseScenario EXCEPT !.name = "ownedconsts", !.typed_consts = TRUE,
                         !.vals = {ValOf(7), LargeVal}, !.arg_lists = {<<2>>},
                         !.ops = {"loadConst", "setType", "call", "refConsumed", "commit"}]

\* A live-out in xmm0 and one in the caller-save r8, a call without side
\* effects and a guard of the argument after it.
XmmLiveOutScenario ==
    [BaseScenario EXCEPT !.name = "xmmliveout", !.live_out_regs = <<17, 8>>,
                         !.scratch_size = 32,
                         !.side_effects = {FALSE}, !.arg_lists = {<<1>>},
                         !.guards = {<<1, ValOf(7), FALSE>>},
                         !.ops = {"call", "guard", "commit"}]

\* A call and a guard in a slot that may be too small for the code or for
\* the final jump, or may not be given at all; the client may abort.
OverflowScenario ==
    [BaseScenario EXCEPT !.name = "overflow", !.arg_lists = {<<1>>},
                         !.guards = {<<1, ValOf(7), FALSE>>},
                         !.prepare_ok = {TRUE, FALSE},
                         !.overflows = {"none", "code", "jump"},
                         !.ops = {"call", "guard", "commit", "abort"}]

\* A call without side effects whose owned result, or whose argument, is
\* guarded afterwards; references may be consumed by the call.
OwnedGuardScenario ==
    [BaseScenario EXCEPT !.name = "ownedguards", !.arg_lists = {<<1>>},
                         !.side_effects = {FALSE}, !.result_types = {"OWNED"},
                         !.guards = {<<1, ValOf(7), FALSE>>, <<2, ValOf(7), FALSE>>},
                         !.ops = {"call", "setType", "refConsumed", "guard", "commit"}]

\* Compares and truth tests of two arguments and of their results, with
\* and without a destination, in a slot with one register fit for setcc.
SetccScenario ==
    [BaseScenario EXCEPT !.name = "setcc", !.num_args = 2, !.used_args = {1, 2},
                         !.allocatable_regs = {RAX, RSI, RDI},
                         !.cmps = {<<1, "Eq", 2, AnyReg>>, <<1, "NotEq", 2, Reg(RDI)>>,
                                   <<3, "Eq", 1, AnyReg>>},
                         !.tobools = {<<1, AnyReg>>, <<3, AnyReg>>, <<2, Reg(RSI)>>},
                         !.ops = {"cmp", "toBool", "commit"}]

\* The same in a slot that may also allocate the callee-save RBX.
OwnedCalleeSaveScenario ==
    [OwnedCallScenario EXCEPT !.name = "ownedcalleesave", !.arg_lists = {<<>>},
                              !.allocatable_regs = std_allocatable_regs \cup {RBX}]

\* Calls with side effects whose results are owned and may be consumed.
RefScenario ==
    [BaseScenario EXCEPT !.name = "refs", !.counter_addr = LargeVal,
                         !.ops = {"call", "setType", "setNullable", "refConsumed",
                                  "commitReturning", "commit"}]

\* Two arguments and live-outs in a callee-save register, a caller-save
\* register and an argument register.
LiveOutScenario ==
    [BaseScenario EXCEPT !.name = "liveouts", !.num_args = 2, !.used_args = {1, 2}, !.live_out_regs = <<3, 8, 4>>,
                         !.far_calls = TRUE, !.side_effects = {FALSE, TRUE},
                         !.dests = {AnyReg, Reg(R8)},
                         !.ops = {"getAttr", "call", "guard", "commit"}]

\* No scratch space, a live-out in a caller-save register, an owned argument.
NoScratchScenario ==
    [BaseScenario EXCEPT !.name = "noscratch", !.scratch_size = 0, !.live_out_regs = <<8>>,
                         !.arg_types = {"OWNED", "BORROWED"},
                         !.ops = {"setType", "guard", "incref", "commit"}]

\* Seven arguments, the last one on the stack and owned.
StackArgScenario ==
    [BaseScenario EXCEPT !.name = "stackarg", !.num_args = 7, !.used_args = {7},
                         !.arg_types = {"OWNED"},
                         !.ops = {"setType", "call", "decref", "commit"}]

\* Two arguments that are the live-outs of the two allocatable registers.
CycleScenario ==
    [BaseScenario EXCEPT !.name = "cycle", !.num_args = 2, !.used_args = {1, 2},
                         !.live_out_regs = <<5, 4>>, !.allocatable_regs = {RDI, RSI},
                         !.dests = {Reg(RDI), Reg(RSI)},
                         !.ops = {"getAttr", "incref", "commit"}]

\* Guards against 64-bit constants near one another and near the address
\* of the slot's counter, then a call with side effects.
ConstScenario ==
    [BaseScenario EXCEPT !.name = "consts", !.counter_addr = Val(8, 4096),
                         !.vals = {LargeVal, Val(8, 4096)},
                         !.arg_lists = {<<1>>},
                         !.ops = {"guard", "call", "commit"}]

\* Three allocatable registers.
TightScenario ==
    [BaseScenario EXCEPT !.name = "tight", !.allocatable_regs = {RAX, RDI, R11},
                         !.scratch_size = 8, !.side_effects = {FALSE},
                         !.ops = {"getAttr", "loadConst", "call", "commit"}]

\* No scratch space, a live-out in R11, an owned argument that may be NULL.
NullableScenario ==
    [BaseScenario EXCEPT !.name = "nullable", !.scratch_size = 0, !.live_out_regs = <<11>>,
                         !.arg_types = {"OWNED"},
                         !.ops = {"setType", "setNullable", "xdecref", "commit"}]

\* A NULL constant passed to a call that consumes a reference, or returned.
NullRefScenario ==
    [BaseScenario EXCEPT !.name = "nullref", !.vals = {ValOf(0)},
                         !.ops = {"loadConst", "call", "refConsumed", "commitReturningNonPython",
                                  "commit"}]

\* Loads of two attributes, a guard against a 64-bit constant, a mutation,
\* a borrowed result that may be returned.
AttrScenario ==
    [BaseScenario EXCEPT !.name = "attrs", !.offsets = {16, 32}, !.vals = {LargeVal},
                         !.result_types = {"BORROWED"},
                         !.ops = {"getAttr", "guard", "incref", "setType",
                                  "commitReturning", "commit"}]

\* Two arguments passed to two-argument calls in any order and repetition.
SwapScenario ==
    [BaseScenario EXCEPT !.name = "swap", !.num_args = 2, !.used_args = {1, 2},
                         !.call_arity = {2}, !.side_effects = {FALSE},
                         !.ops = {"call", "commit"}]

\* Seven arguments passed on to seven-argument calls: as they came, with
\* the first and the last exchanged, and with the first repeated.
ManyArgsScenario ==
    [BaseScenario EXCEPT !.name = "manyargs", !.num_args = 7, !.used_args = {1, 7},
                         !.side_effects = {FALSE},
                         !.arg_lists = {<<1, 2, 3, 4, 5, 6, 7>>, <<7, 2, 3, 4, 5, 6, 1>>,
                                        <<1, 1, 1, 1, 1, 1, 7>>},
                         !.ops = {"call", "commit"}]

\* Attribute guards on two arguments: one guard, and the four that differ
\* from it in the offset, in the value (32 bits for 64), in the polarity
\* and in the variable.
AttrGuardScenario ==
    [BaseScenario EXCEPT !.name = "attrguards", !.num_args = 2, !.used_args = {1, 2},
                         !.attr_guards = {<<1, 16, LargeVal, FALSE>>,
                                          <<1, 32, LargeVal, FALSE>>,
                                          <<1, 16, ValOf(7), FALSE>>,
                                          <<1, 16, LargeVal, TRUE>>,
                                          <<2, 16, LargeVal, FALSE>>},
                         !.ops = {"attrGuard", "commit"}]

\* Pinned objects in a rewrite that may fail while it is recorded or
\* while it is emitted, may be aborted and may find no slot.
PinScenario ==
    [NoScratchScenario EXCEPT !.name = "pins", !.prepare_ok = {TRUE, FALSE},
                              !.ops = {"addGCReference", "setType", "guard", "incref",
                                       "commit", "abort"}]

\* A container and an item: the item, owned, replaces the attribute at
\* offset 24 of the container.
ReplaceScenario ==
    [BaseScenario EXCEPT !.name = "replace", !.num_args = 2, !.used_args = {1, 2},
                         !.arg_types = {"OWNED", "BORROWED"}, !.offsets = {24},
                         !.prev_nullables = {FALSE, TRUE},
                         !.ops = {"setType", "replaceAttr", "guard", "commit"}]

\* A variable whose attributes at two offsets are registered as owned
\* and deregistered, or not.
OwnedAttrScenario ==
    [BaseScenario EXCEPT !.name = "ownedattrs", !.offsets = {16, 24},
                         !.ops = {"registerOwnedAttr", "deregisterOwnedAttr", "commit"}]

\* Two allocatable registers, one of them the argument's: loads and
\* guards against a 64-bit constant run out of registers while guarding.
NoVictimScenario ==
    [BaseScenario EXCEPT !.name = "novictim", !.allocatable_regs = {RAX, RDI},
                         !.vals = {LargeVal},
                         !.ops = {"getAttr", "guard", "commit"}]

\* Two allocatable registers, one holding the argument and the other a
\* live-out: every load has to spill one of them.
SpillChoiceScenario ==
    [BaseScenario EXCEPT !.name = "spillchoice", !.allocatable_regs = {RAX, RDI},
                         !.live_out_regs = <<0>>, !.offsets = {16, 24},
                         !.ops = {"getAttr", "commit"}]

\* A callee-save register among three allocatable ones, and loads asked
\* into the argument's register.
CalleeSaveScenario ==
    [BaseScenario EXCEPT !.name = "calleesave", !.allocatable_regs = {RAX, RBX, RDI},
                         !.dests = {Reg(RDI)}, !.offsets = {16, 24},
                         !.ops = {"getAttr", "commit"}]

\* Three scratch slots: arrays of one and two slots are allocated, copied
\* into and passed to calls that spill the argument.
ScratchScenario ==
    [BaseScenario EXCEPT !.name = "scratch", !.scratch_size = 24, !.sizes = {1, 2},
                         !.ops = {"allocate", "allocateAndCopy", "call", "commit"}]

Scenarios ==
    {XmmLiveOutScenario, OverflowScenario, OwnedConstScenario, HandoffScenario, OwnedGuardScenario, SetccScenario, OwnedCalleeSaveScenario, OwnedCallScenario, CompareScenario, ConstScenario, CycleScenario, ScratchScenario, CalleeSaveScenario, SpillChoiceScenario, NoVictimScenario, OwnedAttrScenario, ReplaceScenario, PinScenario, AttrGuardScenario, SwapScenario, ManyArgsScenario, GuardScenario, RefScenario, LiveOutScenario, NoScratchScenario, StackArgScenario,
     TightScenario, NullRefScenario, NullableScenario, AttrScenario}

(***************************************************************************)
(* Rewriter::Rewriter                                                      *)
(***************************************************************************)
RECURSIVE ConstructLiveOuts(_, _, _)

ArgVar(i) ==
    [NewVar EXCEPT !.locations = <<forArg(i)>>, !.is_arg = TRUE, !.arg_loc = forArg(i)]

\* The live-out loop of the constructor from live-out k on; st holds the
\* variables, the location map and the live_outs list built so far.
ConstructLiveOuts(st, regs, k) ==
    IF k > Len(regs) THEN st
    ELSE
      LET l == fromDwarf(regs[k])
      IN  IF l \in DOMAIN st.vbl
          THEN ConstructLiveOuts([st EXCEPT !.live_outs = Append(@, st.vbl[l])], regs, k + 1)
          ELSE LET v == Len(st.vars) + 1
               IN  ConstructLiveOuts(
                     [vars |-> Append(st.vars, [NewVar EXCEPT !.locations = <<l>>]),
                      vbl |-> [x \in (DOMAIN st.vbl) \cup {l} |->
                                  IF x = l THEN v ELSE st.vbl[x]],
                      live_outs |-> Append(st.live_outs, v)],
                     regs, k + 1)

Constructed(sc) ==
    ConstructLiveOuts(
      [vars |-> [i \in 1..sc.num_args |-> ArgVar(i - 1)],
       vbl |-> [l \in {forArg(i - 1) : i \in 1..sc.num_args} |->
                   CHOOSE i \in 1..sc.num_args : forArg(i - 1) = l],
       live_outs |-> <<>>],
      sc.live_out_regs, 1)

Init ==
    /\ scenario \in Scenarios
    /\ phase = "collect"
    /\ vars = Constructed(scenario).vars
    /\ vars_by_location = Constructed(scenario).vbl
    /\ live_outs = Constructed(scenario).live_outs
    /\ live_out_regs = scenario.live_out_regs
    /\ args = [i \in 1..scenario.num_args |-> i]
    /\ actions = <<>>
    /\ consts = <<>>
    /\ getattrs = {}
    /\ failed = FALSE
    /\ finished = FALSE
    /\ added_changing_action = FALSE
    /\ last_guard_action = -1
    /\ done_guarding = FALSE
    /\ marked_inside_ic = FALSE
    /\ current_action_idx = -1
    /\ picked_slot = NULL
    /\ owned_attrs = {}
    /\ decref_infos = <<>>
    /\ gc_references = <<>>
    /\ num_consumes = 0
    /\ slot = "none"
    /\ crash = ""
    /\ dbg = {}
    /\ code = <<>>
    /\ call_log = <<>>
    /\ jmp_log = <<>>
    /\ rel_log = <<>>
    /\ chk_log = <<>>
    /\ end_log = <<>>
    /\ getattr_log = <<>>
    /\ run_log = <<>>
    /\ alloc_log = <<>>
    /\ attr_guard_log = <<>>
    /\ bytes_written = 0
    /\ next_slot_jmps = <<>>
    /\ emitted_jmps = <<>>
    /\ py_objs = [p \in PyObjects |-> [refcnt |-> 1, increfs |-> 0, decrefs |-> 0, released |-> FALSE]]
    /\ slot_gc_references = <<>>
    /\ guard_log = <<>>
    /\ patchpoint = <<>>
    /\ outcome_log = <<>>

(***************************************************************************)
(* Collect phase: the client's operations.                                 *)
(***************************************************************************)
fixedV == <<scenario, args, live_outs, live_out_regs>>

emitV == <<vars_by_location, done_guarding, marked_inside_ic, current_action_idx,
           picked_slot, owned_attrs, decref_infos, slot, crash, dbg, code,
           call_log, jmp_log, rel_log, chk_log, end_log, run_log, alloc_log,
           finished>>

BaseAction ==
    [kind |-> "", type |-> "NORMAL", result |-> NULL, v |-> NULL, val |-> NULL,
     negate |-> FALSE, offset |-> 0, dest |-> NoneLoc, has_side_effects |-> FALSE,
     args |-> <<>>, consumed_refs |-> <<>>, n |-> 0]

\* Variables the client holds a handle on and that are not constants.
Operands ==
    {v \in 1..Len(vars) :
        /\ ~vars[v].is_constant
        /\ IF vars[v].is_arg THEN \E i \in scenario.used_args : args[i] = v
           ELSE ~InSeq(live_outs, v)}

ConstVars == {v \in 1..Len(vars) : vars[v].is_constant}

Collecting(op) ==
    /\ phase = "collect"
    /\ ~failed
    /\ op \in scenario.ops

\* addAction: the state of the collect phase after enqueueing action a of
\* the given type with input variables list, starting from variables vs.
addActionTo(S, a, list, type) ==
    LET n == Len(S.actions)
        vs1 == PushUses(S.vars, list, 1, n)
        act == [a EXCEPT !.type = type]
    IN  IF type = "GUARD" /\ S.added
        THEN [S EXCEPT !.vars = vs1, !.failed = TRUE]
        ELSE IF type = "GUARD"
        THEN [S EXCEPT !.vars = PushUses(vs1, args, 1, n),
                       !.actions = Append(S.actions, act), !.last_guard = n]
        ELSE [S EXCEPT !.vars = vs1, !.actions = Append(S.actions, act),
                       !.added = (S.added \/ type = "MUTATION")]

\* addAction on the rewriter as it stands, with variables vs.
addAction(vs, a, list, type) ==
    addActionTo([vars |-> vs, actions |-> actions, added |-> added_changing_action,
                 failed |-> failed, last_guard |-> last_guard_action],
                a, list, type)

Enqueued(r) ==
    /\ vars' = r.vars
    /\ actions' = r.actions
    /\ added_changing_action' = r.added
    /\ failed' = r.failed
    /\ last_guard_action' = r.last_guard

\* loadConst: the variable of val in the table, or the next variable.
loadConstVar(val) ==
    LET hits == {i \in 1..Len(consts) : consts[i][1] = val}
    IN  IF hits # {} THEN consts[Min(hits)][2] ELSE Len(vars) + 1

VarsWithConst(val) ==
    IF loadConstVar(val) <= Len(vars) THEN vars
    ELSE Append(vars, [NewVar EXCEPT !.is_constant = TRUE, !.constant_value = val])

ConstsWith(val) ==
    IF loadConstVar(val) <= Len(vars) THEN consts
    ELSE Append(consts, <<val, loadConstVar(val)>>)

LoadConst(val) ==
    /\ Collecting("loadConst")
    /\ Len(actions) < MaxActions
    /\ loadConstVar(val) > Len(vars)
    /\ vars' = VarsWithConst(val)
    /\ consts' = ConstsWith(val)
    /\ UNCHANGED <<fixedV, emitV, phase, actions, getattrs, failed, added_changing_action,
                   last_guard_action, gc_references, num_consumes, getattr_log, attr_guard_log, bytes_written, next_slot_jmps, emitted_jmps, py_objs, slot_gc_references, guard_log, patchpoint, outcome_log>>

\* The rewriter's fields as an operation on them left them in R.
Py_INCREF(objs, p) == [objs EXCEPT ![p].refcnt = @ + 1, ![p].increfs = @ + 1]

\* abort() forgets the pins without giving the references back.
Py_DECREF_forgotten(objs, p) == objs

Py_DECREF(objs, p) == [objs EXCEPT ![p].refcnt = @ - 1, ![p].decrefs = @ + 1]

Py_REFCNT(p) == py_objs[p].refcnt

\* The loop of abort() over gc_references from pin k on.
RECURSIVE DecrefPins(_, _, _)
DecrefPins(objs, pins, k) ==
    IF k > Len(pins) THEN objs
    ELSE DecrefPins(Py_DECREF(objs, pins[k]), pins, k + 1)

\* abort(): every pin is given back and the list is cleared.
abort_gc_references ==
    /\ py_objs' = DecrefPins(py_objs, gc_references, 1)
    /\ gc_references' = <<>>
    /\ slot_gc_references' = slot_gc_references

\* rewrite->commit(this, std::move(gc_references), ...)
commit_gc_references ==
    /\ slot_gc_references' = gc_references
    /\ gc_references' = <<>>
    /\ py_objs' = py_objs

\* We hold the only reference to a pinned object.
OnlyRefHeld == \E k \in 1..Len(gc_references) : Py_REFCNT(gc_references[k]) = 1

Store(R) ==
    /\ vars' = R.vars
    /\ vars_by_location' = R.vbl
    /\ failed' = R.failed
    /\ done_guarding' = R.done_guarding
    /\ marked_inside_ic' = R.marked_inside_ic
    /\ current_action_idx' = R.cur
    /\ owned_attrs' = R.owned_attrs
    /\ decref_infos' = R.decref_infos
    /\ crash' = R.crash
    /\ dbg' = R.dbg
    /\ code' = R.code
    /\ call_log' = R.call_log
    /\ jmp_log' = R.jmp_log
    /\ rel_log' = R.rel_log
    /\ chk_log' = R.chk_log
    /\ end_log' = R.end_log
    /\ run_log' = R.run_log
    /\ alloc_log' = R.alloc_log

\* Where the run stands after a piece of the rewriter's code left it in R:
\* the process died, or else ph / sl / fin.
Outcome(R, ph, sl, fin) ==
    /\ Store(R)
    /\ IF R.crash # "" \/ sl \notin {"aborted", "committed"}
       THEN UNCHANGED <<gc_references, py_objs, slot_gc_references>>
       ELSE IF sl = "aborted" THEN abort_gc_references ELSE commit_gc_references
    /\ phase' = IF R.crash # "" THEN "crashed" ELSE ph
    /\ slot' = IF R.crash # "" THEN slot ELSE sl
    /\ finished' = IF R.crash # "" THEN finished ELSE fin

\* getAttr with the memo never consulted.
MemoHit_never(v, offset) == FALSE

MemoHit(v, offset) ==
    ~added_changing_action /\ \E m \in getattrs : m[1] = v /\ m[2] = offset

\* getattrs[(offset, type)] of variable v.
Memoized(v, offset) ==
    (CHOOSE m \in getattrs : m[1] = v /\ m[2] = offset)[3]

MemoHits == {k \in 1..Len(getattr_log) : getattr_log[k].hit}

\* One call of getAttr as the client sees it: what it asked, what it got,
\* and the length of the action list before and after.
GetAttrCall(v, offset, dest, result, hit, after) ==
    [v |-> v, offset |-> offset, dest |-> dest, result |-> result, hit |-> hit,
     before |-> Len(actions), after |-> after, mutated |-> added_changing_action]

GetAttr(v, offset, dest, wild) ==
    /\ Collecting("getAttr")
    /\ IF MemoHit(v, offset)
       THEN /\ Cardinality(MemoHits) < MaxMemoHits
            /\ dest = AnyReg => wild = "assert"
            /\ Outcome(Invoke("getAttrMemoized", <<RW, Memoized(v, offset), dest, wild>>),
                       "collect", slot, finished)
            /\ getattr_log' = Append(getattr_log,
                   GetAttrCall(v, offset, dest, Memoized(v, offset), TRUE, Len(actions)))
            /\ UNCHANGED <<actions, added_changing_action, last_guard_action, getattrs,
                           picked_slot>>
       ELSE /\ Len(actions) < MaxActions
            /\ wild = "assert"
            /\ LET result == Len(vars) + 1
                   a == [BaseAction EXCEPT !.kind = "getAttr", !.result = result, !.v = v,
                                           !.offset = offset, !.dest = dest]
               IN  /\ Enqueued(addAction(Append(vars, NewVar), a, <<v>>, "NORMAL"))
                   /\ getattrs' = IF added_changing_action THEN getattrs
                                  ELSE getattrs \cup {<<v, offset, result>>}
                   /\ getattr_log' = Append(getattr_log,
                          GetAttrCall(v, offset, dest, result, FALSE, Len(actions) + 1))
            /\ UNCHANGED <<emitV, phase>>
    /\ UNCHANGED <<fixedV, consts, gc_references, num_consumes, attr_guard_log, bytes_written, next_slot_jmps, emitted_jmps, py_objs, slot_gc_references, guard_log, patchpoint, outcome_log>>

\* Mutant: a guard on a constant is enqueued like any other guard.
isConstant_never(v) == FALSE

\* RewriterVar::isConstant
isConstant(v) == vars[v].is_constant

\* The guards a client may ask for: those the scenario lists, as far as
\* their variable exists, or any operand against any of the values.
GuardArgs ==
    IF scenario.guards # {}
    THEN {g \in scenario.guards : g[1] \in Operands \cup ConstVars}
    ELSE Operands \X scenario.vals \X scenario.negates

\* RewriterVar::addGuard (negate = FALSE) and RewriterVar::addGuardNotEq
\* (negate = TRUE).  addGuard on a constant enqueues nothing: it returns
\* when the constant is val and stops the process when it is not.
AddGuard(v, val, negate) ==
    /\ Collecting("guard")
    /\ IF ~negate /\ isConstant(v)
       THEN /\ vars[v].constant_value = val => Len(guard_log) < MaxDupGuards
            /\ Outcome(IF vars[v].constant_value = val THEN RW
                       ELSE Crash(RW, "addGuard:always_false"),
                       "collect", slot, finished)
            /\ UNCHANGED <<actions, added_changing_action, last_guard_action, consts,
                           picked_slot>>
            /\ guard_log' = Append(guard_log,
                   [v |-> v, val |-> val,
                    before |-> [vars |-> vars, actions |-> actions, crash |-> crash],
                    after |-> [vars |-> vars', actions |-> actions', crash |-> crash']])
       ELSE /\ Len(actions) < MaxActions
            /\ LET val_var == loadConstVar(val)
                   a == [BaseAction EXCEPT !.kind = "guard", !.v = v, !.val = val_var,
                                           !.negate = negate]
               IN  Enqueued(addAction(VarsWithConst(val), a, <<v, val_var>>, "GUARD"))
            /\ consts' = ConstsWith(val)
            /\ UNCHANGED <<emitV, phase, guard_log, gc_references, py_objs,
                           slot_gc_references>>
    /\ UNCHANGED <<fixedV, getattrs, num_consumes, getattr_log, attr_guard_log, bytes_written, next_slot_jmps, emitted_jmps, patchpoint, outcome_log>>

\* Mutant: the set of guards already added is never consulted.
AlreadyGuarded_never(v, offset, val, negate) == FALSE

\* !attr_guards.insert(...).second
AlreadyGuarded(v, offset, val, negate) == <<offset, val, negate>> \in vars[v].attr_guards

DuplicateGuards == {k \in 1..Len(attr_guard_log) : attr_guard_log[k].dup}

AddAttrGuard(v, offset, val, negate) ==
    /\ Collecting("attrGuard")
    /\ IF AlreadyGuarded(v, offset, val, negate)
       THEN /\ Cardinality(DuplicateGuards) < MaxDupGuards
            /\ attr_guard_log' = Append(attr_guard_log,
                   [v |-> v, offset |-> offset, val |-> val, negate |-> negate, dup |-> TRUE])
            /\ UNCHANGED <<vars, actions, added_changing_action, failed, last_guard_action,
                           consts>>
       ELSE /\ Len(actions) < MaxActions
            /\ LET val_var == loadConstVar(val)
                   a == [BaseAction EXCEPT !.kind = "attrGuard", !.v = v, !.val = val_var,
                                           !.offset = offset, !.negate = negate]
                   vs == [VarsWithConst(val) EXCEPT
                            ![v].attr_guards = @ \cup {<<offset, val, negate>>}]
               IN  Enqueued(addAction(vs, a, <<v, val_var>>, "GUARD"))
            /\ consts' = ConstsWith(val)
            /\ attr_guard_log' = Append(attr_guard_log,
                   [v |-> v, offset |-> offset, val |-> val, negate |-> negate, dup |-> FALSE])
    /\ UNCHANGED <<fixedV, emitV, phase, getattrs, gc_references, num_consumes, getattr_log, bytes_written, next_slot_jmps, emitted_jmps, py_objs, slot_gc_references, guard_log, patchpoint, outcome_log>>

Call(has_side_effects, cargs) ==
    /\ Collecting("call")
    /\ Len(actions) < MaxActions
    /\ LET result == Len(vars) + 1
           a == [BaseAction EXCEPT !.kind = "call", !.result = result,
                                   !.has_side_effects = has_side_effects, !.args = cargs]
       IN  Enqueued(addAction(Append(vars, NewVar), a, cargs,
                              IF has_side_effects THEN "MUTATION" ELSE "NORMAL"))
    /\ UNCHANGED <<fixedV, emitV, phase, consts, getattrs, gc_references, num_consumes, getattr_log, attr_guard_log, bytes_written, next_slot_jmps, emitted_jmps, py_objs, slot_gc_references, guard_log, patchpoint, outcome_log>>

RefOp(kind, v) ==
    /\ Collecting(kind)
    /\ Len(actions) < MaxActions
    /\ Enqueued(addAction(vars, [BaseAction EXCEPT !.kind = kind, !.v = v], <<v>>, "MUTATION"))
    /\ UNCHANGED <<fixedV, emitV, phase, consts, getattrs, gc_references, num_consumes, getattr_log, attr_guard_log, bytes_written, next_slot_jmps, emitted_jmps, py_objs, slot_gc_references, guard_log, patchpoint, outcome_log>>

Incref(v) == RefOp("incref", v)

\* RewriterVar::cmp
Cmp(v1, cmp_type, v2, dest) ==
    /\ Collecting("cmp")
    /\ Len(actions) < MaxActions
    /\ LET result == Len(vars) + 1
           a == [BaseAction EXCEPT !.kind = "cmp", !.result = result, !.v = v1,
                                   !.negate = (cmp_type = "NotEq"), !.val = v2,
                                   !.dest = dest]
       IN  Enqueued(addAction(Append(vars, NewVar), a, <<v1, v2>>, "NORMAL"))
    /\ UNCHANGED <<fixedV, emitV, phase, consts, getattrs, gc_references, num_consumes, getattr_log, attr_guard_log, bytes_written, next_slot_jmps, emitted_jmps, py_objs, slot_gc_references, guard_log, patchpoint, outcome_log>>

\* RewriterVar::toBool
ToBool(v, dest) ==
    /\ Collecting("toBool")
    /\ Len(actions) < MaxActions
    /\ LET result == Len(vars) + 1
           a == [BaseAction EXCEPT !.kind = "toBool", !.result = result, !.v = v,
                                   !.dest = dest]
       IN  Enqueued(addAction(Append(vars, NewVar), a, <<v>>, "NORMAL"))
    /\ UNCHANGED <<fixedV, emitV, phase, consts, getattrs, gc_references, num_consumes, getattr_log, attr_guard_log, bytes_written, next_slot_jmps, emitted_jmps, py_objs, slot_gc_references, guard_log, patchpoint, outcome_log>>

\* Rewriter::allocate
Allocate(n) ==
    /\ Collecting("allocate")
    /\ Len(actions) < MaxActions
    /\ LET result == Len(vars) + 1
           a == [BaseAction EXCEPT !.kind = "allocate", !.result = result, !.n = n]
       IN  Enqueued(addAction(Append(vars, NewVar), a, <<>>, "NORMAL"))
    /\ UNCHANGED <<fixedV, emitV, phase, consts, getattrs, gc_references, num_consumes, getattr_log, attr_guard_log, bytes_written, next_slot_jmps, emitted_jmps, py_objs, slot_gc_references, guard_log, patchpoint, outcome_log>>

\* Rewriter::allocateAndCopy
AllocateAndCopy(array_ptr, n) ==
    /\ Collecting("allocateAndCopy")
    /\ Len(actions) < MaxActions
    /\ LET result == Len(vars) + 1
           a == [BaseAction EXCEPT !.kind = "allocateAndCopy", !.result = result,
                                   !.v = array_ptr, !.n = n]
       IN  Enqueued(addAction(Append(vars, NewVar), a, <<array_ptr>>, "NORMAL"))
    /\ UNCHANGED <<fixedV, emitV, phase, consts, getattrs, gc_references, num_consumes, getattr_log, attr_guard_log, bytes_written, next_slot_jmps, emitted_jmps, py_objs, slot_gc_references, guard_log, patchpoint, outcome_log>>

\* RewriterVar::registerOwnedAttr and deregisterOwnedAttr: kind names which.
OwnedAttrOp(kind, v, byte_offset) ==
    /\ Collecting(kind)
    /\ Len(actions) < MaxActions
    /\ Enqueued(addAction(vars, [BaseAction EXCEPT !.kind = kind, !.v = v,
                                                   !.offset = byte_offset],
                          <<v>>, "NORMAL"))
    /\ UNCHANGED <<fixedV, emitV, phase, consts, getattrs, gc_references, num_consumes, getattr_log, attr_guard_log, bytes_written, next_slot_jmps, emitted_jmps, py_objs, slot_gc_references, guard_log, patchpoint, outcome_log>>

RegisterOwnedAttr(v, byte_offset) == OwnedAttrOp("registerOwnedAttr", v, byte_offset)

DeregisterOwnedAttr(v, byte_offset) == OwnedAttrOp("deregisterOwnedAttr", v, byte_offset)

Decref(v) == RefOp("decref", v) /\ ~vars[v].nullable

XDecref(v) == RefOp("xdecref", v) /\ vars[v].nullable

\* The client classifies a variable right after it gets it: an entry
\* argument before the first operation, a result right after the operation
\* that made it.
JustObtained(v) ==
    \/ vars[v].is_arg /\ Len(actions) = 0
    \/ Len(actions) > 0 /\ actions[Len(actions)].result = v
    \/ scenario.typed_consts /\ vars[v].is_constant /\ v = Len(vars)

SetType(v, type) ==
    /\ Collecting("setType")
    /\ vars[v].reftype = "UNKNOWN"
    /\ JustObtained(v)
    /\ type \in (IF vars[v].is_arg THEN scenario.arg_types ELSE scenario.result_types)
    /\ vars' = [vars EXCEPT ![v].reftype = type]
    /\ UNCHANGED <<fixedV, emitV, phase, actions, consts, getattrs, failed,
                   added_changing_action, last_guard_action, gc_references, num_consumes, getattr_log, attr_guard_log, bytes_written, next_slot_jmps, emitted_jmps, py_objs, slot_gc_references, guard_log, patchpoint, outcome_log>>

SetNullable(v) ==
    /\ Collecting("setNullable")
    /\ ~vars[v].nullable
    /\ vars[v].reftype = "OWNED"
    /\ JustObtained(v)
    /\ vars' = [vars EXCEPT ![v].nullable = TRUE]
    /\ UNCHANGED <<fixedV, emitV, phase, actions, consts, getattrs, failed,
                   added_changing_action, last_guard_action, gc_references, num_consumes, getattr_log, attr_guard_log, bytes_written, next_slot_jmps, emitted_jmps, py_objs, slot_gc_references, guard_log, patchpoint, outcome_log>>

\* refConsumed(action) on the variables vs and actions acts, the action
\* being the last one.
refConsumedIn(vs, v) ==
    [vs EXCEPT ![v].num_refs_consumed = @ + 1,
               ![v].last_refconsumed_numuses = Len(vs[v].uses)]

RefConsumed(v) ==
    /\ Collecting("refConsumed")
    /\ Len(actions) > 0
    /\ num_consumes < MaxConsumes + scenario.more_consumes
    /\ \/ vars[v].reftype # "UNKNOWN"
       \/ vars[v].is_constant /\ vars[v].constant_value = ValOf(0)
    /\ Len(vars[v].uses) > 0
    /\ vars[v].uses[Len(vars[v].uses)] = Len(actions) - 1
    /\ vars' = refConsumedIn(vars, v)
    /\ actions' = [actions EXCEPT ![Len(actions)].consumed_refs = <<v>> \o @]
    /\ num_consumes' = num_consumes + 1
    /\ UNCHANGED <<fixedV, emitV, phase, consts, getattrs, failed, added_changing_action,
                   last_guard_action, gc_references, getattr_log, attr_guard_log, bytes_written, next_slot_jmps, emitted_jmps, py_objs, slot_gc_references, guard_log, patchpoint, outcome_log>>

\* RewriterVar::replaceAttr: the old value is read with getAttr, val is
\* stored handed off and its reference consumed by the store, and the old
\* value is decref'd (xdecref'd when it may be NULL).
ReplaceAttr(v, offset, val, prev_nullable) ==
    /\ Collecting("replaceAttr")
    /\ vars[val].reftype # "UNKNOWN"
    /\ LET hit == MemoHit(v, offset)
           prev == IF hit THEN Memoized(v, offset) ELSE Len(vars) + 1
           S0 == [vars |-> vars, actions |-> actions, added |-> added_changing_action,
                  failed |-> failed, last_guard |-> last_guard_action]
           get == [BaseAction EXCEPT !.kind = "getAttr", !.result = prev, !.v = v,
                                     !.offset = offset, !.dest = AnyReg]
           S1 == IF hit THEN S0
                 ELSE addActionTo([S0 EXCEPT !.vars = Append(vars, NewVar)],
                                  get, <<v>>, "NORMAL")
           set == [BaseAction EXCEPT !.kind = "setAttr", !.v = v, !.offset = offset,
                                     !.val = val, !.consumed_refs = <<val>>]
           S2 == addActionTo(S1, set, <<v, val>>, "MUTATION")
           S3 == [S2 EXCEPT !.vars = refConsumedIn(S2.vars, val)]
           S4 == IF prev_nullable
                 THEN [S3 EXCEPT !.vars[prev].nullable = TRUE]
                 ELSE S3
           dec == [BaseAction EXCEPT !.kind = IF prev_nullable THEN "xdecref" ELSE "decref",
                                     !.v = prev]
       IN  /\ Len(actions) + (IF hit THEN 2 ELSE 3) <= MaxActions
           /\ Enqueued(addActionTo(S4, dec, <<prev>>, "MUTATION"))
           /\ getattrs' = IF hit \/ added_changing_action THEN getattrs
                          ELSE getattrs \cup {<<v, offset, prev>>}
           /\ getattr_log' = Append(getattr_log,
                  GetAttrCall(v, offset, AnyReg, prev, hit,
                              Len(actions) + (IF hit THEN 0 ELSE 1)))
    /\ UNCHANGED <<fixedV, emitV, phase, consts, gc_references, num_consumes, attr_guard_log, bytes_written, next_slot_jmps, emitted_jmps, py_objs, slot_gc_references, guard_log, patchpoint, outcome_log>>

(***************************************************************************)
(* commit(), commitReturning(), abort() and the emit phase.                *)
(***************************************************************************)
\* commit() from the test of failed to prepareEntry, on variables vs with n
\* actions enqueued.
CommitHead(vs, n) ==
    LET vs1 == PushUses(vs, live_outs, 1, n)
        vs2 == PushUses(vs1, [i \in 1..Len(consts) |-> consts[i][2]], 1, n)
        R0 == Dbg([RW EXCEPT !.vars = vs2, !.stage = "head"], owned_attrs = {},
                  "commit:owned_attrs")
        R1 == assertConsistent(R0, "commit:begin")
    IN  IF last_guard_action = -1 THEN Invoke("on_done_guarding", <<R1>>) ELSE R1

\* One turn of commit()'s action loop: the action's code, then the
\* bookkeeping after it unless the action failed.
EmitStep(R, i) ==
    LET R1 == Invoke("EmitOne", <<R, i>>)
    IN  IF R1.crash # "" \/ R1.failed
        THEN [st |-> R1, stop |-> TRUE]
        ELSE [st |-> Invoke("AfterAction", <<R1, i>>), stop |-> FALSE]

(***************************************************************************)
(* Invoke(fn, a) applies the function named fn to the arguments a.         *)
(***************************************************************************)
Invoke(fn, a) ==
    CASE fn = "addLocationToVar" -> addLocationToVar(a[1], a[2], a[3])
      [] fn = "removeLocationFromVar" -> removeLocationFromVar(a[1], a[2], a[3])
      [] fn = "spillRegisterLogged" -> spillRegisterLogged(a[1], a[2], a[3])
      [] fn = "spillXMMRegister" -> spillXMMRegister(a[1], a[2])
      [] fn = "allocRegState" -> allocRegState(a[1], a[2], a[3], a[4])
      [] fn = "allocReg" -> allocReg(a[1], a[2], a[3], a[4])
      [] fn = "loadConstIntoReg" -> loadConstIntoReg(a[1], a[2], a[3])
      [] fn = "getInReg" -> getInReg(a[1], a[2], a[3], a[4], a[5])
      [] fn = "getInRegUnlocated" -> getInRegUnlocated(a[1], a[2], a[3], a[4])
      [] fn = "getAttrMemoized" -> getAttrMemoized(a[1], a[2], a[3], a[4])
      [] fn = "initializeInReg" -> initializeInReg(a[1], a[2], a[3])
      [] fn = "allocXMMRegState" -> allocXMMRegState(a[1], a[2], a[3])
      [] fn = "initializeInXMMReg" -> initializeInXMMReg(a[1], a[2], a[3])
      [] fn = "getInXMMReg" -> getInXMMReg(a[1], a[2], a[3])
      [] fn = "getDecrefLocations" -> getDecrefLocations(a[1])
      [] fn = "registerDecrefInfoHere" -> registerDecrefInfoHere(a[1])
      [] fn = "callOptimalEncoding" -> callOptimalEncoding(a[1], a[2], a[3], a[4])
      [] fn = "_incref" -> _incref(a[1], a[2])
      [] fn = "bumpUseEarlyIfPossible" -> bumpUseEarlyIfPossible(a[1], a[2])
      [] fn = "bumpUseLateIfNecessary" -> bumpUseLateIfNecessary(a[1], a[2])
      [] fn = "BumpAll" -> BumpAll(a[1], a[2], a[3], a[4])
      [] fn = "_release" -> _release(a[1], a[2])
      [] fn = "bumpUse" -> bumpUse(a[1], a[2])
      [] fn = "releaseIfNoUses" -> releaseIfNoUses(a[1], a[2])
      [] fn = "PlaceArgs" -> PlaceArgs(a[1], a[2], a[3], a[4])
      [] fn = "SpillCallerSave" -> SpillCallerSave(a[1], a[2], a[3], a[4])
      [] fn = "_setupCall" -> _setupCall(a[1], a[2], a[3], a[4], a[5], a[6])
      [] fn = "_decref" -> _decref(a[1], a[2], a[3])
      [] fn = "_xdecref" -> _xdecref(a[1], a[2], a[3])
      [] fn = "_call" -> _call(a[1], a[2], a[3], a[4], a[5], a[6], a[7], a[8])
      [] fn = "RestoreArgLoop" -> RestoreArgLoop(a[1], a[2])
      [] fn = "RestoreLiveOutLoop" -> RestoreLiveOutLoop(a[1], a[2])
      [] fn = "restoreArgs" -> restoreArgs(a[1])
      [] fn = "_addGuard" -> _addGuard(a[1], a[2], a[3], a[4])
      [] fn = "_addAttrGuard" -> _addAttrGuard(a[1], a[2], a[3], a[4], a[5])
      [] fn = "_setAttr" -> _setAttr(a[1], a[2], a[3], a[4])
      [] fn = "_getAttr" -> _getAttr(a[1], a[2], a[3], a[4], a[5])
      [] fn = "_cmp" -> _cmp(a[1], a[2], a[3], a[4], a[5], a[6])
      [] fn = "_toBool" -> _toBool(a[1], a[2], a[3], a[4])
      [] fn = "registerOwnedAttr_action" -> registerOwnedAttr_action(a[1], a[2], a[3])
      [] fn = "deregisterOwnedAttr_action" -> deregisterOwnedAttr_action(a[1], a[2], a[3])
      [] fn = "_allocate" -> _allocate(a[1], a[2], a[3])
      [] fn = "allocate_action" -> allocate_action(a[1], a[2], a[3])
      [] fn = "_allocateAndCopy" -> _allocateAndCopy(a[1], a[2], a[3], a[4])
      [] fn = "incref_action" -> incref_action(a[1], a[2])
      [] fn = "decref_action" -> decref_action(a[1], a[2])
      [] fn = "xdecref_action" -> xdecref_action(a[1], a[2])
      [] fn = "returning_action" -> returning_action(a[1], a[2])
      [] fn = "RunAction" -> RunAction(a[1], a[2])
      [] fn = "RemoveOtherLocations" -> RemoveOtherLocations(a[1], a[2], a[3], a[4], a[5])
      [] fn = "ReleaseDoneArgs" -> ReleaseDoneArgs(a[1], a[2])
      [] fn = "on_done_guarding" -> on_done_guarding(a[1])
      [] fn = "IncrefConsumed" -> IncrefConsumed(a[1], a[2], a[3], a[4])
      [] fn = "EmitOne" -> EmitOne(a[1], a[2])
      [] fn = "AfterAction" -> AfterAction(a[1], a[2])
      [] fn = "CounterEpilogue" -> CounterEpilogue(a[1])
      [] fn = "BumpConstants" -> BumpConstants(a[1], a[2])
      [] fn = "LiveOutPass" -> LiveOutPass(a[1], a[2], a[3])
      [] fn = "LiveOutSweep" -> LiveOutSweep(a[1], a[2])
      [] fn = "BumpLiveOuts" -> BumpLiveOuts(a[1], a[2])
      [] fn = "CommitTail" -> CommitTail(a[1], a[2])
      [] fn = "CommitHead" -> CommitHead(a[1], a[2])
      [] fn = "EmitStep" -> EmitStep(a[1], a[2])

\* What a piece of commit() or abort() that ended the rewrite adds to
\* outcome_log; nothing when the rewrite goes on or the process died.
Ended(calls) ==
    outcome_log' = IF phase' = "done" THEN outcome_log \o calls ELSE outcome_log

SlotCall(what, has_failed) == [what |-> what, has_failed |-> has_failed]

\* Mutant: abort() calls the slot and leaves finished alone.
AbortCalls_not_finished(has_failed) == <<SlotCall("abort", has_failed)>>

\* Rewriter::abort: finished = true, then rewrite->abort(); has_failed is
\* the assembler's flag at the time.
AbortCalls(has_failed) == <<SlotCall("finished", has_failed), SlotCall("abort", has_failed)>>

\* rewrite->commit(...), then finished = true.
CommitCalls == <<SlotCall("commit", FALSE), SlotCall("finished", FALSE)>>

\* The state after the head of commit(): on to the action loop when
\* prepareEntry gave a slot, aborted when it did not.
HeadOutcome(R, ok) ==
    /\ IF ok THEN Outcome(R, "emit", slot, FALSE)
       ELSE Outcome(R, "done", "aborted", TRUE)
    /\ Ended(AbortCalls(FALSE))

\* commit() up to the action loop.
StartCommit(vs, fl, n) ==
    IF fl \/ OnlyRefHeld
    THEN Outcome([RW EXCEPT !.vars = vs, !.failed = fl], "done", "aborted", TRUE)
         /\ picked_slot' = picked_slot
         /\ Ended(AbortCalls(FALSE))
    ELSE \E ok \in scenario.prepare_ok :
            /\ picked_slot' = IF ok THEN 1 ELSE NULL
            /\ HeadOutcome(Invoke("CommitHead", <<vs, n>>), ok)

Commit ==
    /\ phase = "collect"
    /\ "commit" \in scenario.ops
    /\ StartCommit(vars, failed, Len(actions))
    /\ UNCHANGED <<fixedV, actions, consts, getattrs, added_changing_action,
                   last_guard_action, num_consumes, getattr_log, attr_guard_log, bytes_written, next_slot_jmps, emitted_jmps, guard_log, patchpoint>>

CommitReturning(v) ==
    /\ phase = "collect"
    /\ "commitReturning" \in scenario.ops
    /\ Len(actions) <= MaxActions
    /\ vars[v].reftype # "UNKNOWN"
    /\ LET r == addAction(vars, [BaseAction EXCEPT !.kind = "returning", !.v = v],
                          <<v>>, "NORMAL")
       IN  /\ actions' = [r.actions EXCEPT ![Len(r.actions)].consumed_refs = <<v>> \o @]
           /\ StartCommit(refConsumedIn(r.vars, v), failed, Len(r.actions))
    /\ UNCHANGED <<fixedV, consts, getattrs, added_changing_action, last_guard_action,
                   num_consumes, getattr_log, attr_guard_log, bytes_written, next_slot_jmps, emitted_jmps, guard_log, patchpoint>>

\* Rewriter::commitReturningNonPython
CommitReturningNonPython(v) ==
    /\ phase = "collect"
    /\ "commitReturningNonPython" \in scenario.ops
    /\ Len(actions) <= MaxActions
    /\ vars[v].reftype = "UNKNOWN"
    /\ LET r == addAction(vars, [BaseAction EXCEPT !.kind = "returning", !.v = v],
                          <<v>>, "NORMAL")
       IN  /\ actions' = r.actions
           /\ StartCommit(r.vars, failed, Len(r.actions))
    /\ UNCHANGED <<fixedV, consts, getattrs, added_changing_action, last_guard_action,
                   num_consumes, getattr_log, attr_guard_log, bytes_written, next_slot_jmps, emitted_jmps, guard_log, patchpoint>>

\* addGCReference(obj)
AddGCReference(obj) ==
    /\ phase = "collect"
    /\ "addGCReference" \in scenario.ops
    /\ Len(gc_references) < MaxPins
    /\ Py_REFCNT(obj) > 0
    /\ py_objs' = Py_INCREF(py_objs, obj)
    /\ gc_references' = Append(gc_references, obj)
    /\ UNCHANGED <<fixedV, emitV, phase, vars, actions, consts, getattrs, failed,
                   added_changing_action, last_guard_action, num_consumes,
                   getattr_log, attr_guard_log, bytes_written, next_slot_jmps,
                   emitted_jmps, slot_gc_references, guard_log, patchpoint, outcome_log>>

\* The owner of a pinned object gives up its own reference while the
\* rewrite is being recorded.
OwnerReleases(obj) ==
    /\ phase = "collect"
    /\ "addGCReference" \in scenario.ops
    /\ ~py_objs[obj].released
    /\ Py_REFCNT(obj) > 1
    /\ py_objs' = [py_objs EXCEPT ![obj].refcnt = @ - 1, ![obj].released = TRUE]
    /\ UNCHANGED <<fixedV, emitV, phase, vars, actions, consts, getattrs, failed,
                   added_changing_action, last_guard_action, num_consumes,
                   getattr_log, attr_guard_log, bytes_written, next_slot_jmps,
                   emitted_jmps, gc_references, slot_gc_references, guard_log, patchpoint, outcome_log>>

Abort ==
    /\ phase = "collect"
    /\ "abort" \in scenario.ops
    /\ finished' = TRUE
    /\ slot' = "aborted"
    /\ phase' = "done"
    /\ Ended(AbortCalls(FALSE))
    /\ abort_gc_references
    /\ UNCHANGED <<fixedV, vars, vars_by_location, actions, consts, getattrs, failed,
                   added_changing_action, last_guard_action, done_guarding,
                   marked_inside_ic, current_action_idx, picked_slot, owned_attrs,
                   decref_infos, num_consumes, crash, dbg, code, call_log, jmp_log,
                   rel_log, chk_log, end_log, getattr_log, run_log, alloc_log, attr_guard_log, bytes_written, next_slot_jmps, emitted_jmps, guard_log, patchpoint>>

\* The state after one turn of the action loop: commit() returns through
\* abort() when the action failed, and goes on to the next action otherwise.
StepOutcome(r) ==
    /\ IF r.stop THEN Outcome(r.st, "done", "aborted", TRUE)
       ELSE Outcome(r.st, "emit", slot, FALSE)
    /\ Ended(AbortCalls(FALSE))

\* One turn of the action loop of commit().
EmitAction ==
    /\ phase = "emit"
    /\ current_action_idx + 1 < Len(actions)
    /\ StepOutcome(Invoke("EmitStep", <<RW, current_action_idx + 1>>))
    /\ UNCHANGED <<fixedV, actions, consts, getattrs, added_changing_action,
                   last_guard_action, picked_slot, num_consumes, getattr_log, attr_guard_log, bytes_written, next_slot_jmps, emitted_jmps, guard_log, patchpoint>>

\* The end of commit().  The assembler's has-failed flag is the slot's
\* word on whether the code fitted: "none" when it did, "code" when the
\* code of the actions or of the tail ran past the end of the slot (the
\* test ahead of rewrite->commit), "jump" when the jump that
\* finishAssembly adds during rewrite->commit did (the test after it).
FinishCommit ==
    /\ phase = "emit"
    /\ current_action_idx + 1 = Len(actions)
    /\ \E overflow \in scenario.overflows :
          LET R == Invoke("CommitTail", <<RW, overflow>>)
          IN  IF overflow = "none"
              THEN /\ Outcome(R, "done", "committed", TRUE)
                   /\ Ended(CommitCalls)
              ELSE IF overflow = "code"
              THEN /\ Outcome(R, "done", "aborted", TRUE)
                   /\ Ended(AbortCalls(TRUE))
              ELSE /\ Store(R)
                   /\ phase' = IF R.crash # "" THEN "crashed" ELSE "done"
                   /\ slot' = IF R.crash # "" THEN slot ELSE "aborted"
                   /\ finished' = IF R.crash # "" THEN finished ELSE TRUE
                   /\ IF R.crash # ""
                      THEN UNCHANGED <<gc_references, py_objs, slot_gc_references>>
                      ELSE commit_gc_references
                   /\ Ended(<<SlotCall("commit", TRUE)>> \o AbortCalls(TRUE))
    /\ UNCHANGED <<fixedV, actions, consts, getattrs, added_changing_action,
                   last_guard_action, picked_slot, num_consumes, getattr_log, attr_guard_log, bytes_written, next_slot_jmps, emitted_jmps, guard_log, patchpoint>>

CallArgs ==
    IF scenario.arg_lists # {}
    THEN {l \in scenario.arg_lists : \A k \in 1..Len(l) : l[k] <= Len(vars)}
    ELSE UNION {[1..n -> Operands \cup ConstVars] : n \in scenario.call_arity}

\* The compares and truth tests the scenario lists, as far as their
\* variables exist.
CmpArgs == {c \in scenario.cmps : c[1] \in Operands /\ c[3] \in Operands}

ToBoolArgs == {c \in scenario.tobools : c[1] \in Operands}

AttrGuardArgs ==
    IF scenario.attr_guards # {} THEN scenario.attr_guards
    ELSE Operands \X scenario.offsets \X scenario.vals \X scenario.negates

Next ==
    \/ \E v \in Operands \cup ConstVars, t \in {"OWNED", "BORROWED"} : SetType(v, t)
    \/ \E v \in Operands : SetNullable(v)
    \/ \E val \in scenario.vals : LoadConst(val)
    \/ \E v \in Operands, o \in scenario.offsets, d \in scenario.dests,
          w \in WildOutcomes : GetAttr(v, o, d, w)
    \/ \E g \in GuardArgs : AddGuard(g[1], g[2], g[3])
    \/ \E g \in AttrGuardArgs : AddAttrGuard(g[1], g[2], g[3], g[4])
    \/ \E c \in CmpArgs : Cmp(c[1], c[2], c[3], c[4])
    \/ \E c \in ToBoolArgs : ToBool(c[1], c[2])
    \/ \E se \in scenario.side_effects, cargs \in CallArgs : Call(se, cargs)
    \/ \E v \in Operands, o \in scenario.offsets, val \in Operands,
          n \in scenario.prev_nullables : ReplaceAttr(v, o, val, n)
    \/ \E v \in Operands, o \in scenario.offsets : RegisterOwnedAttr(v, o)
    \/ \E v \in Operands, o \in scenario.offsets : DeregisterOwnedAttr(v, o)
    \/ \E n \in scenario.sizes : Allocate(n)
    \/ \E v \in Operands, n \in scenario.sizes : AllocateAndCopy(v, n)
    \/ \E v \in Operands : Incref(v)
    \/ \E v \in Operands : Decref(v)
    \/ \E v \in Operands : XDecref(v)
    \/ \E v \in Operands \cup ConstVars : RefConsumed(v)
    \/ Commit
    \/ \E v \in Operands : CommitReturning(v)
    \/ \E v \in Operands \cup ConstVars : CommitReturningNonPython(v)
    \/ \E obj \in PyObjects : AddGCReference(obj)
    \/ \E obj \in PyObjects : OwnerReleases(obj)
    \/ Abort
    \/ EmitAction
    \/ FinishCommit

Spec == Init /\ [][Next]_vars_

(***************************************************************************)
(* Guard jumps by byte offset.  _nextSlotJump reads the assembler's byte   *)
(* offset, the slot size and the list next_slot_jmps only, so its byte     *)
(* arithmetic is followed in a specification of its own: a guard is some   *)
(* bytes of compare code and then the jump.                                *)
(*   bytes_written    assembler->bytesWritten()                            *)
(*   next_slot_jmps   the recorded jumps <<emit offset, end offset, cond>> *)
(*   emitted_jmps     every conditional jump emitted: where, how long,     *)
(*                    where to, whether it was recorded                    *)
(***************************************************************************)
MaxJumps == 4

\* The bytes of compare code ahead of a guard jump that the run tries.
GuardBytes == {10, 120, 121, 122}

Conditions == {"COND_EQUAL", "COND_NOT_EQUAL"}

\* rewrite->getSlotSize()
SlotSize == 640

ShortJumpSize == 2

LongJumpSize == 6

\* The assembler's jmp_cond: the displacement counts from the end of the
\* two-byte form and is a signed byte there; a displacement that does not
\* fit takes the six-byte form.
JmpCondSize(at, target) ==
    LET offset == target - at - ShortJumpSize
    IN  IF offset >= -128 /\ offset < 128 THEN ShortJumpSize ELSE LongJumpSize

\* The emit offset of the most recent recorded jump with the condition,
\* -1 without one.
RECURSIVE LastJmpOffset(_, _, _)
LastJmpOffset(jmps, k, condition) ==
    IF k = 0 THEN -1
    ELSE IF jmps[k][3] = condition THEN jmps[k][1]
    ELSE LastJmpOffset(jmps, k - 1, condition)

NearPrior(bytes, last_jmp_offset) ==
    last_jmp_offset # -1 /\ bytes - last_jmp_offset < 128

\* _nextSlotJump on the assembler state J = [bytes, jmps, log].
_nextSlotJump(J, condition) ==
    LET last_jmp_offset == LastJmpOffset(J.jmps, Len(J.jmps), condition)
        target == IF NearPrior(J.bytes, last_jmp_offset) THEN last_jmp_offset ELSE SlotSize
        size == JmpCondSize(J.bytes, target)
        recorded == ~NearPrior(J.bytes, last_jmp_offset)
    IN  [bytes |-> J.bytes + size,
         jmps  |-> IF recorded THEN Append(J.jmps, <<J.bytes, J.bytes + size, condition>>)
                   ELSE J.jmps,
         log   |-> Append(J.log, [at |-> J.bytes, size |-> size, target |-> target,
                                  condition |-> condition, recorded |-> recorded,
                                  last |-> last_jmp_offset])]

\* One guard: n bytes of compare code, then the jump to the slow path.
GuardJump(n, condition) ==
    /\ Len(emitted_jmps) < MaxJumps
    /\ bytes_written + n + LongJumpSize <= SlotSize
    /\ LET J == _nextSlotJump([bytes |-> bytes_written + n, jmps |-> next_slot_jmps,
                               log |-> emitted_jmps], condition)
       IN  /\ bytes_written' = J.bytes
           /\ next_slot_jmps' = J.jmps
           /\ emitted_jmps' = J.log
    /\ UNCHANGED <<fixedV, emitV, phase, vars, actions, consts, getattrs, failed,
                   added_changing_action, last_guard_action, gc_references,
                   num_consumes, getattr_log, attr_guard_log, py_objs,
                   slot_gc_references, guard_log, patchpoint, outcome_log>>

JumpInit == Init /\ scenario = GuardScenario

JumpNext == \E n \in GuardBytes, c \in Conditions : GuardJump(n, c)

JumpSpec == JumpInit /\ [][JumpNext]_vars_

(***************************************************************************)
(* The patchpoint initializer.  initializePatchpoint3 runs once on the raw *)
(* slot [start_addr, end_addr) before any rewriter exists and reads its    *)
(* arguments only, so it is followed in a specification of its own.        *)
(*   patchpoint   <<>> before the call, then one record: the arguments,    *)
(*                the three classes of live-outs, the addresses returned   *)
(*                and the slow-path instructions with their addresses      *)
(***************************************************************************)
INITIAL_CALL_SIZE == 13

\* The live-out DWARF numbers the run tries: rax, rbx, rdi, rsp, r11, r12,
\* xmm0, xmm1.
PatchLiveOuts == {0, 3, 5, 7, 11, 12, 17, 18}

MaxPatchLiveOuts == 4

\* The registers the remap map may hold on entry.
PatchRemapped == {RAX, RBX, RDI}

PatchStart == 1000

\* end_addr - start_addr
PatchSizes == {13, 27, 41, 80}

\* Bytes of displacement the assembler uses in a mov between a register and
\* the stack: the estimates of initializePatchpoint3 are for four.
DispSizes == {1, 4}

MovSize(disp) == 3 + disp

MovsdSize(disp) == 5 + disp

EstimatedSpillSize_gp(ru) == 14

\* est_slowpath_size += ... for a register spilled around the call.
EstimatedSpillSize(ru) == IF ru.type = "Register" THEN 14 ELSE 18

RECURSIVE ClassifyLiveOuts(_, _, _)

\* The loop over live_outs, in the order of the set's iteration (ascending
\* DWARF number): P gathers regs_to_spill, regs_to_reload, the registers
\* left alone, est_slowpath_size and the debug assertions that failed.
ClassifyLiveOuts(P, todo, remapped) ==
    IF todo = {} THEN P
    ELSE LET dwarf_regnum == Min(todo)
             ru == fromDwarf(dwarf_regnum)
             P1 == IF ru = Reg(R11) THEN [P EXCEPT !.dbg = @ \cup {"initializePatchpoint3:r11_free"}]
                   ELSE P
             P2 == IF ru.type = "Register" /\ (ru.n = RSP \/ isCalleeSave(ru.n))
                   THEN [P1 EXCEPT !.kept = Append(@, ru)]
                   ELSE IF ru.type = "Register" /\ ru.n \in remapped
                   THEN [P1 EXCEPT !.regs_to_reload = Append(@, ru),
                                   !.est_slowpath_size = @ + 7]
                   ELSE [P1 EXCEPT !.regs_to_spill = Append(@, ru),
                                   !.est_slowpath_size = @ + EstimatedSpillSize(ru)]
         IN  ClassifyLiveOuts(P2, todo \ {dwarf_regnum}, remapped)

RECURSIVE EmitMoves(_, _, _, _, _)

\* One mov per register of regs, from address at on: emitBatchPush,
\* emitBatchPop and the reloads.
EmitMoves(insts, at, op, regs, disp) ==
    IF regs = <<>> THEN [insts |-> insts, at |-> at]
    ELSE LET ru == Head(regs)
             size == IF ru.type = "Register" THEN MovSize(disp) ELSE MovsdSize(disp)
         IN  EmitMoves(Append(insts, [op |-> op, reg |-> ru, at |-> at, size |-> size]),
                       at + size, op, Tail(regs), disp)

initializePatchpoint3(start_addr, end_addr, lo, remapped, disp) ==
    LET P0 == [kept |-> <<>>, regs_to_reload |-> <<>>, regs_to_spill |-> <<>>,
               est_slowpath_size |-> INITIAL_CALL_SIZE,
               dbg |-> IF start_addr < end_addr THEN {} ELSE {"initializePatchpoint3:start_before_end"}]
        P == ClassifyLiveOuts(P0, lo, remapped)
        slowpath_start == end_addr - P.est_slowpath_size
        push == EmitMoves(<<>>, slowpath_start, "push", P.regs_to_spill, disp)
        call == Append(push.insts, [op |-> "call", reg |-> Reg(R11), at |-> push.at,
                                    size |-> INITIAL_CALL_SIZE])
        slowpath_rtn_addr == push.at + INITIAL_CALL_SIZE
        pop == EmitMoves(call, slowpath_rtn_addr, "pop", P.regs_to_spill, disp)
        continue_addr == IF P.regs_to_reload = <<>> THEN end_addr ELSE pop.at
        reload == EmitMoves(pop.insts, pop.at, "reload", P.regs_to_reload, disp)
    IN  [start_addr |-> start_addr, end_addr |-> end_addr, live_outs_in |-> lo,
         remapped |-> remapped,
         kept |-> P.kept, regs_to_reload |-> P.regs_to_reload,
         regs_to_spill |-> P.regs_to_spill,
         est_slowpath_size |-> P.est_slowpath_size,
         jmp_over_nops |-> slowpath_start - start_addr > 20,
         slowpath_start |-> slowpath_start,
         slowpath_rtn_addr |-> slowpath_rtn_addr,
         continue_addr |-> continue_addr,
         live_outs |-> lo,
         insts |-> reload.insts,
         nops_from |-> reload.at,
         dbg |-> P.dbg
                 \cup (IF slowpath_start >= start_addr THEN {}
                       ELSE {"initializePatchpoint3:slowpath_space"})
                 \cup (IF reload.at <= end_addr THEN {}
                       ELSE {"initializePatchpoint3:assem_failed"})]

\* The one call of the initializer on a slot.
InitializePatchpoint(size, lo, remapped, disp) ==
    /\ patchpoint = <<>>
    /\ patchpoint' = <<initializePatchpoint3(PatchStart, PatchStart + size, lo, remapped, disp)>>
    /\ UNCHANGED <<fixedV, emitV, phase, vars, actions, consts, getattrs, failed,
                   added_changing_action, last_guard_action, gc_references,
                   num_consumes, getattr_log, attr_guard_log, py_objs,
                   slot_gc_references, guard_log, bytes_written, next_slot_jmps,
                   emitted_jmps, outcome_log>>

PatchInit == Init /\ scenario = GuardScenario

PatchNext ==
    /\ patchpoint = <<>>
    /\ \E size \in PatchSizes, lo \in SUBSET PatchLiveOuts, remapped \in SUBSET PatchRemapped,
          disp \in DispSizes :
           /\ Cardinality(lo) <= MaxPatchLiveOuts
           /\ InitializePatchpoint(size, lo, remapped, disp)

PatchSpec == PatchInit /\ [][PatchNext]_vars_

(***************************************************************************)
(* Properties.                                                             *)
(***************************************************************************)
Emitted(op) == {i \in 1..Len(code) : code[i].op = op}

\* C1: at every point of the emit phase where the rewriter checks
\* consistency and failed is not set - the assertConsistent() calls inside
\* the actions and the allocator, and the end of every action -
\* vars_by_location and the variables' location sets agree: each
\* non-placeholder entry loc -> var has loc in var.locations, and each
\* location of each variable maps back to that variable.
C1_MapsConsistent ==
    /\ \A i \in 1..Len(chk_log) : chk_log[i].failed
    /\ (phase = "emit" /\ ~failed) => Consistent(vars, vars_by_location)

\* C1 witness: an action has run, a variable was spilled to scratch and
\* another allocation followed, and the check after the action passed.
C1_Witness ==
    /\ phase = "emit"
    /\ current_action_idx >= 1
    /\ ~failed
    /\ \E i \in Emitted("mov") : code[i].dst.type = "Scratch"
    /\ \E v \in 1..Len(vars) : Len(vars[v].locations) >= 2
    /\ Consistent(vars, vars_by_location)

\* C2: at the moment the conditional jump of any guard is emitted, every
\* entry-argument variable is in its declared argument location
\* Location::forArg(i).
C2_ArgsInPlaceAtGuardJump ==
    \A j \in 1..Len(jmp_log) : \A i \in 1..Len(args) :
        isInLocation(jmp_log[j].vars[args[i]], forArg(i - 1))

\* A variable whose value can be produced again without a location.
Rematerializable(var) == var.is_constant \/ isScratchAllocation(var)

HasSafeLocation(var) ==
    \E k \in 1..Len(var.locations) : ~isClobberedByCall(var.locations[k])

\* What C3 says of one logged call instruction c.
CallSiteSafe(c) ==
    /\ \A l \in DOMAIN c.vbl : ~isClobberedByCall(l)
    /\ \A v \in 1..Len(c.vars) :
          (Len(c.before[v].locations) > 0 /\ c.vars[v].next_use < Len(c.vars[v].uses))
             => (HasSafeLocation(c.vars[v]) \/ Rematerializable(c.vars[v]))
    /\ \A v \in 1..Len(c.vars) :
          (/\ Len(c.before[v].locations) > 0
           /\ Len(c.vars[v].locations) = 0
           /\ ~Rematerializable(c.vars[v]))
             => (InSeq(c.args, v) /\ c.vars[v].next_use = Len(c.vars[v].uses))

Committed == phase = "done" /\ slot = "committed"

\* C4: for every variable next_use never decreases and never exceeds
\* uses.size(); when a commit has succeeded every recorded use (with the
\* extra use of each constant and each live-out) has been consumed, that is
\* next_use = uses.size() for every variable, and vars_by_location holds
\* placeholders only.
C4_UseCursor ==
    /\ [](\A v \in 1..Len(vars) : vars[v].next_use <= Len(vars[v].uses))
    /\ [][\A v \in 1..Len(vars) : vars'[v].next_use >= vars[v].next_use]_vars_
    /\ [](Committed =>
            /\ \A v \in 1..Len(vars) : vars[v].next_use = Len(vars[v].uses)
            /\ \A l \in DOMAIN vars_by_location :
                  vars_by_location[l] = LOCATION_PLACEHOLDER)

\* C4 witness: a committed rewrite with a guard, a constant and a variable
\* used by more than one action.
C4_Witness ==
    /\ Committed
    /\ Len(jmp_log) > 0
    /\ \E v \in 1..Len(vars) : vars[v].is_constant /\ vars[v].next_use = 2
    /\ \E v \in 1..Len(vars) : ~vars[v].is_constant /\ vars[v].next_use >= 3

ConsumedAt(i, v) ==
    {k \in 1..Len(actions[i + 1].consumed_refs) : actions[i + 1].consumed_refs[k] = v}

\* v's reference is handed off and action i is its final use.
HandoffAt(i, v) ==
    /\ refHandedOff(vars[v])
    /\ Len(vars[v].uses) > 0
    /\ vars[v].uses[Len(vars[v].uses)] = i

\* The increfs of v inserted in front of action i.
IncrefsBefore(i, v) ==
    {a \in 1..Len(code) : code[a].op = "incref" /\ code[a].pre = i /\ code[a].v = v}

\* Every instruction inserted in front of action i lies after the code of
\* the earlier actions and before the code of action i itself.
ImmediatelyBefore(i) ==
    \A a, b \in 1..Len(code) :
        (code[a].pre = i /\ code[b].pre = -1) =>
            IF code[b].act < i THEN b < a ELSE a < b

\* C6 as stated: for each consumed-reference entry of each action that has
\* run, exactly one incref of the variable is emitted immediately before
\* the action, unless the reference is handed off and the action is the
\* final use, in which case none is emitted.
C6_OneIncrefPerConsumedRef ==
    crash = "" =>
        \A i \in 0..current_action_idx :
            /\ ImmediatelyBefore(i)
            /\ \A v \in 1..Len(vars) :
                  Cardinality(IncrefsBefore(i, v)) =
                      IF HandoffAt(i, v) THEN 0 ELSE Cardinality(ConsumedAt(i, v))

\* C6 amended: as above, with a second exception: nothing is emitted for a
\* constant variable whose value is NULL.
C6_OneIncrefUnlessNull ==
    crash = "" =>
        \A i \in 0..current_action_idx :
            /\ ImmediatelyBefore(i)
            /\ \A v \in 1..Len(vars) :
                  Cardinality(IncrefsBefore(i, v)) =
                      IF \/ HandoffAt(i, v)
                         \/ vars[v].is_constant /\ vars[v].constant_value = ValOf(0)
                      THEN 0 ELSE Cardinality(ConsumedAt(i, v))

\* C6 witness: a committed rewrite in which one variable had a reference
\* consumed by an action that is not its final use (one incref in front of
\* it) and by its final use (handed off, no incref).
C6_Witness ==
    /\ Committed
    /\ \E v \in 1..Len(vars), i, j \in 0..current_action_idx :
          /\ ConsumedAt(i, v) # {} /\ ~HandoffAt(i, v)
          /\ Cardinality(IncrefsBefore(i, v)) = 1
          /\ \E a \in IncrefsBefore(i, v) : a < Len(code)
          /\ ConsumedAt(j, v) # {} /\ HandoffAt(j, v)
          /\ IncrefsBefore(j, v) = {}

\* The decrefs and the xdecref calls emitted by the release of v.
DecrefsAtRelease(v) ==
    {a \in 1..Len(code) : code[a].op = "decref" /\ code[a].rel = v /\ code[a].v = v}

XDecrefsAtRelease(v) ==
    {j \in 1..Len(call_log) :
        call_log[j].kind = "xdecref" /\ call_log[j].rel = v /\ call_log[j].args = <<v>>}

\* The release of v owes a decref: v is Owned and not handed off.
OwesDecref(v) == vars[v].reftype = "OWNED" /\ ~refHandedOff(vars[v])

ReleasesDecrefOnce ==
    /\ \A k \in 1..Len(rel_log) :
          LET v == rel_log[k].v
          IN  /\ Cardinality(DecrefsAtRelease(v)) =
                    IF OwesDecref(v) /\ ~vars[v].nullable THEN 1 ELSE 0
              /\ Cardinality(XDecrefsAtRelease(v)) =
                    IF OwesDecref(v) /\ vars[v].nullable THEN 1 ELSE 0
    /\ \A k1, k2 \in 1..Len(rel_log) : rel_log[k1].v = rel_log[k2].v => k1 = k2

UnusedCopyResult(v) ==
    /\ Len(vars[v].uses) = 0
    /\ \E i \in 1..Len(actions) : actions[i].kind = "allocateAndCopy" /\ actions[i].result = v

ReleasesDecrefOnceButCopyResults ==
    /\ \A k \in 1..Len(rel_log) :
          LET v == rel_log[k].v
          IN  ~UnusedCopyResult(v) =>
                /\ Cardinality(DecrefsAtRelease(v)) =
                      IF OwesDecref(v) /\ ~vars[v].nullable THEN 1 ELSE 0
                /\ Cardinality(XDecrefsAtRelease(v)) =
                      IF OwesDecref(v) /\ vars[v].nullable THEN 1 ELSE 0
    /\ \A k1, k2 \in 1..Len(rel_log) :
          (rel_log[k1].v = rel_log[k2].v /\ k1 # k2) => UnusedCopyResult(rel_log[k1].v)
    /\ \A v \in 1..Len(vars) :
          Cardinality({k \in 1..Len(rel_log) : rel_log[k].v = v}) <= 2

InfosAt(j) == {k \in 1..Len(decref_infos) : decref_infos[k].ip = call_log[j].ip}

\* The variables that hold an Owned reference at logged call j: Owned, not
\* yet released, and not handed off by the action the call belongs to.
OwnedAt(j) ==
    {v \in 1..Len(call_log[j].vars) :
        /\ vars[v].reftype = "OWNED"
        /\ Len(call_log[j].vars[v].locations) > 0
        /\ ~HandoffAt(call_log[j].act, v)}

\* C8: in a rewrite that has neither failed nor stopped, every call that
\* may throw has exactly one decref-info entry keyed by its return address,
\* and the entry lists one location for each variable that is Owned, not
\* yet released and not yet handed off at that call, and no other variable.
C8_DecrefInfoAtThrowingCall ==
    (crash = "" /\ ~failed) =>
        \A j \in 1..Len(call_log) :
            call_log[j].kind = "call" =>
                /\ Cardinality(InfosAt(j)) = 1
                /\ \A k \in InfosAt(j) :
                      /\ {e.v : e \in decref_infos[k].locs} = OwnedAt(j)
                      /\ \A e1, e2 \in decref_infos[k].locs : e1.v = e2.v => e1 = e2

\* The variables that need a decref at logged call j and have no eligible
\* location: no scratch slot and no register that survives a call.
Unplaceable(j) ==
    {v \in 1..Len(call_log[j].vars) :
        /\ needsDecref(call_log[j].vars[v], call_log[j].act)
        /\ Len(call_log[j].vars[v].locations) > 0
        /\ \A k \in 1..Len(call_log[j].vars[v].locations) :
              ~EligibleDecrefLoc(call_log[j].vars[v].locations[k])}

\* C9: when the decref info of a throwing call is built and an Owned
\* variable that needs a decref has no eligible location, the rewrite fails
\* recoverably: failed is set and commit aborts the slot, and the process
\* does not stop in an assertion.
C9_UnplaceableRefFailsRewrite ==
    \A j \in 1..Len(call_log) :
        (call_log[j].kind = "call" /\ Unplaceable(j) # {}) =>
            /\ crash = ""
            /\ failed
            /\ phase = "done" /\ slot = "aborted"

\* C10: failed is never cleared once set, and a rewrite in which failed was
\* set at any time before or during commit ends aborted: the slot's commit
\* is never invoked for it.
C10_FailedRewriteNeverCommits ==
    /\ [][failed => failed']_vars_
    /\ [](failed => slot # "committed")
    /\ []((failed /\ phase = "done") => slot = "aborted")

\* The location list the constructor gave variable v: an entry argument's
\* or live-out's register or stack slot, none for a variable made later.
ConstructedLocations(v) ==
    IF v <= Len(Constructed(scenario).vars)
    THEN Constructed(scenario).vars[v].locations ELSE <<>>

\* C11: during the collect phase no operation emits machine code or changes
\* the allocator state: the emitted code is empty, vars_by_location and
\* every variable's location list are as the constructor left them.  This
\* includes a getAttr answered from the memo with a specific destination
\* register.
C11_CollectEmitsNothing ==
    phase = "collect" =>
        /\ code = <<>>
        /\ vars_by_location = Constructed(scenario).vbl
        /\ \A v \in 1..Len(vars) : vars[v].locations = ConstructedLocations(v)

\* getAttr calls j < k on the same variable with the same offset.
SameAttr(j, k) ==
    /\ j < k
    /\ getattr_log[j].v = getattr_log[k].v
    /\ getattr_log[j].offset = getattr_log[k].offset

\* A mutating action was recorded after call j and before call k.
MutationBetween(j, k) ==
    \E i \in (getattr_log[j].after + 1)..getattr_log[k].before :
        actions[i].type = "MUTATION"

\* The load actions enqueued for variable r.
LoadsOf(r) == {i \in 1..Len(actions) : actions[i].kind = "getAttr" /\ actions[i].result = r}

\* Call k gave back the variable of call j and enqueued nothing.
SameAsEarlier(j, k) ==
    /\ getattr_log[k].result = getattr_log[j].result
    /\ getattr_log[k].after = getattr_log[k].before
    /\ Cardinality(LoadsOf(getattr_log[k].result)) = 1

\* Call k made a variable no earlier call returned, with its own load.
Fresh(k) ==
    /\ \A j \in 1..(k - 1) : getattr_log[j].result # getattr_log[k].result
    /\ getattr_log[k].after = getattr_log[k].before + 1
    /\ LoadsOf(getattr_log[k].result) = {getattr_log[k].after}

FreshOnceMutated ==
    \A k \in 1..Len(getattr_log) : getattr_log[k].mutated => Fresh(k)

\* C17: two getAttr calls on the same variable with the same offset and no
\* mutating action recorded in between return the same variable and
\* enqueue one load in all; a getAttr made once a mutating action has been
\* recorded returns a fresh variable with its own load action.
C17_MemoUnlessMutationBetween ==
    crash = "" =>
        /\ \A j, k \in 1..Len(getattr_log) :
              (SameAttr(j, k) /\ ~MutationBetween(j, k)) => SameAsEarlier(j, k)
        /\ FreshOnceMutated

\* C17 (amended): the same with "no mutating action recorded before the
\* second call" in place of "in between".
C17_MemoUntilFirstMutation ==
    crash = "" =>
        /\ \A j, k \in 1..Len(getattr_log) :
              (SameAttr(j, k) /\ ~getattr_log[k].mutated) => SameAsEarlier(j, k)
        /\ FreshOnceMutated

C17_Witness ==
    /\ crash = ""
    /\ \E j, k \in 1..Len(getattr_log) : SameAttr(j, k) /\ getattr_log[k].hit
    /\ \E j, k \in 1..Len(getattr_log) :
          SameAttr(j, k) /\ getattr_log[k].mutated /\ ~getattr_log[j].mutated

\* Code emitted inside commit()'s action loop.
InLoop(k) == code[k].stage \in {"incref", "action", "after"}

\* The action (0-based) in whose turn of the loop code entry k was emitted.
TurnOf(k) == IF code[k].stage = "incref" THEN code[k].pre ELSE code[k].act

\* Within a turn: the increfs, then the action, then on_done_guarding.
StageRank(k) ==
    IF code[k].stage = "incref" THEN 0 ELSE IF code[k].stage = "action" THEN 1 ELSE 2

\* The variables whose reference action i (0-based) consumes.
ConsumedBy(i) ==
    {actions[i + 1].consumed_refs[j] : j \in 1..Len(actions[i + 1].consumed_refs)}

LastUse(v) == vars[v].uses[Len(vars[v].uses)]

\* Release r of the log happens at the action that exhausts the uses of
\* its variable (or that made the variable, when it is never used).
ReleasedAtLastUse(r) ==
    IF Len(vars[rel_log[r].v].uses) = 0
    THEN actions[rel_log[r].act + 1].result = rel_log[r].v
    ELSE LastUse(rel_log[r].v) = rel_log[r].act

ExhaustedWhileGuarding ==
    {a \in {args[i] : i \in 1..Len(args)} :
        Len(vars[a].uses) = 0 \/ LastUse(a) <= last_guard_action}

\* The releases of variable v made by on_done_guarding.
ReleasesWhenDoneGuarding(v) ==
    {r \in 1..Len(rel_log) :
        /\ rel_log[r].v = v
        /\ rel_log[r].stage \in {"head", "after"}
        /\ rel_log[r].act = last_guard_action
        /\ ~rel_log[r].guarding}

ReleasesOf(v) == {r \in 1..Len(rel_log) : rel_log[r].v = v}

\* done_guarding is set when on_done_guarding has run: with no guard once
\* the emit phase has started, otherwise once action last_guard_action has
\* run.
DoneGuardingOnTime ==
    /\ phase = "collect" => ~done_guarding
    /\ (phase = "emit" \/ slot = "committed") =>
          (done_guarding <=> current_action_idx >= last_guard_action)

NoArgReleasedWhileGuarding ==
    \A r \in 1..Len(rel_log) : vars[rel_log[r].v].is_arg => ~rel_log[r].guarding

ExhaustedArgsReleasedWhenDone ==
    (done_guarding /\ crash = "") =>
        \A a \in ExhaustedWhileGuarding :
            /\ Cardinality(ReleasesOf(a)) = 1
            /\ ReleasesOf(a) = ReleasesWhenDoneGuarding(a)

\* C13: done_guarding becomes true once and never reverts, before the
\* first action when there is no guard and otherwise right after action
\* last_guard_action; no entry argument is released while it is false, and
\* every entry argument whose uses were exhausted during the guard prefix
\* is released when it is set.
C13_DoneGuarding ==
    /\ [][done_guarding => done_guarding']_vars_
    /\ []DoneGuardingOnTime
    /\ []NoArgReleasedWhileGuarding
    /\ []ExhaustedArgsReleasedWhenDone

C13_Witness ==
    /\ slot = "committed"
    /\ last_guard_action = 1
    /\ Len(actions) = MaxActions
    /\ ExhaustedWhileGuarding # {}
    /\ \A a \in ExhaustedWhileGuarding : Len(vars[a].uses) > 1

\* Logged call j may have side effects: a call action recorded with
\* has_side_effects, or the call of a decref / xdecref.
SideEffecting(j) ==
    \/ call_log[j].kind \in {"dealloc", "xdecref"}
    \/ call_log[j].kind = "call" /\ actions[call_log[j].act + 1].has_side_effects

SideEffectingCalls == {j \in 1..Len(call_log) : SideEffecting(j)}

\* The assembler ran out of room while commit was emitting its tail: the
\* code of the tail is in the log and the slot is not committed.
AssemblerFailedInCommit ==
    \E i \in 1..Len(outcome_log) : outcome_log[i].has_failed

\* C14: with invalidation support, whatever side-effecting calls are
\* emitted (those of decrefs the rewriter inserts included), the increment
\* of num_inside is emitted once, before the first of them; the decrement
\* is emitted once, after the last action and before the live-outs are
\* placed; with no side-effecting call neither is emitted.
C14_CounterOncePerSlot ==
    (scenario.needs_invalidation_support /\ crash = "") =>
        /\ SideEffectingCalls = {} => Emitted("incl") = {} /\ Emitted("decl") = {}
        /\ SideEffectingCalls # {} =>
              /\ Cardinality(Emitted("incl")) = 1
              /\ \A k \in Emitted("incl"), j \in SideEffectingCalls : k < call_log[j].ip
        /\ (slot # "committed" /\ ~AssemblerFailedInCommit) => Emitted("decl") = {}
        /\ (slot = "committed" \/ AssemblerFailedInCommit) =>
              /\ Cardinality(Emitted("decl")) = Cardinality(Emitted("incl"))
              /\ \A k \in Emitted("decl"), m \in 1..Len(code) :
                    /\ code[k].stage = "tail"
                    /\ InLoop(m) => m < k
                    /\ code[m].stage = "live_outs" => k < m

C14_Witness ==
    /\ slot = "committed"
    /\ Cardinality(SideEffectingCalls) > 1
    /\ \E k \in Emitted("decl"), m \in 1..Len(code) : code[m].stage = "live_outs"

\* The instructions whose dst operand is written.
WritingOps == {"mov", "mov_imm", "clear_reg", "mov_load", "lea", "movsd"}

\* The instructions before instruction ip that decide what location l
\* holds at ip: those that write l, and, for a register, the calls.
WritesBefore(l, ip) ==
    {m \in 1..(ip - 1) :
        \/ code[m].dst = l /\ code[m].op \in WritingOps
        \/ l.type = "Register" /\ code[m].op \in {"call_rel32", "callq_reg", "callq_mem"}}

\* Instruction m puts the value of variable v into its destination.
Puts(m, v) ==
    /\ code[m].op \in {"mov", "mov_imm", "clear_reg", "mov_load"}
    /\ \/ code[m].v = v
       \/ /\ vars[v].is_constant /\ code[m].v = NULL
          /\ code[m].imm = vars[v].constant_value

\* When instruction ip is emitted, location l holds the value of variable
\* v: the last write of l put it there, or l was never written and held v
\* on entry.
HoldsAt(l, v, ip) ==
    IF WritesBefore(l, ip) = {}
    THEN l \in DOMAIN Constructed(scenario).vbl /\ Constructed(scenario).vbl[l] = v
    ELSE \E m \in WritesBefore(l, ip) :
            /\ \A q \in WritesBefore(l, ip) : q <= m
            /\ code[m].dst = l
            /\ Puts(m, v)

\* At logged call j every argument is in the location of its position.
ArgsPlaced(j) ==
    \A i \in 1..Len(call_log[j].args) :
        HoldsAt(forArg(i - 1), call_log[j].args[i], call_log[j].ip)

PlacementStops == crash \in {"_setupCall:asRegister", "allocReg:dest_type"}

\* C16: every call gets to its call instruction, and at the call
\* instruction the variable of each argument i is in the location of
\* position i, RDI, RSI, RDX, RCX, R8, R9 and then the stack slots, for all
\* positions at once; this includes a variable passed in two positions and
\* arguments that start in each other's registers.
C16_ArgsInPlaceAtCall ==
    /\ ~PlacementStops
    /\ \A j \in 1..Len(call_log) : ArgsPlaced(j)

\* The same for the calls emitted with failed unset, in rewrites where the
\* placement did not stop the process.
C16_ArgsInPlaceUnlessFailed ==
    \A j \in 1..Len(call_log) : ~call_log[j].failed => ArgsPlaced(j)

\* The enqueued attribute guards of variable v with the given triple.
AttrGuardActions(v, offset, val, negate) ==
    {i \in 1..Len(actions) :
        /\ actions[i].kind = "attrGuard"
        /\ actions[i].v = v
        /\ actions[i].offset = offset
        /\ vars[actions[i].val].constant_value = val
        /\ actions[i].negate = negate}

\* The compares and the jumps emitted by action i (1-based).
ComparesOf(i) ==
    {k \in 1..Len(code) :
        code[k].op \in {"cmp_mem", "cmp_mem_imm"} /\ code[k].act = i - 1}

JumpsOf(i) == {k \in 1..Len(jmp_log) : jmp_log[k].act = i - 1}

\* The last call of addAttrGuard repeated an earlier one.
RepeatedGuard ==
    /\ Len(attr_guard_log') = Len(attr_guard_log) + 1
    /\ attr_guard_log'[Len(attr_guard_log')].dup

\* Every guard asked for is enqueued once, however often it was asked for,
\* and a committed rewrite holds one compare and one jump for it.
GuardedOnce ==
    \A k \in 1..Len(attr_guard_log) :
        LET e == attr_guard_log[k]
            acts == AttrGuardActions(e.v, e.offset, e.val, e.negate)
        IN  /\ Cardinality(acts) = 1
            /\ slot = "committed" =>
                  \A i \in acts : Cardinality(ComparesOf(i)) = 1 /\ Cardinality(JumpsOf(i)) = 1

\* C18: an attribute guard with a given (offset, value, negate) on a given
\* variable is enqueued at most once: a repeated call adds no action, no
\* use and no compare or jump and leaves the rewriter as it was; guards
\* that differ in the offset, the value, the polarity or the variable are
\* each enqueued and emitted.
C18_AttrGuardOnce ==
    /\ [][RepeatedGuard => UNCHANGED <<vars, actions, consts, failed, last_guard_action,
                                       added_changing_action, emitV>>]_vars_
    /\ []GuardedOnce

C18_Witness ==
    /\ slot = "committed"
    /\ DuplicateGuards # {}
    /\ Len(actions) = MaxActions
    /\ \E i, j \in 1..Len(actions) : actions[i].v # actions[j].v
    /\ \E i, j \in 1..Len(actions) :
          actions[i].v = actions[j].v /\ actions[i].offset # actions[j].offset

\* The recorded jumps with the condition of jump k that were emitted before it.
PriorJumps(k) ==
    {i \in 1..(k - 1) :
        emitted_jmps[i].recorded /\ emitted_jmps[i].condition = emitted_jmps[k].condition}

MostRecent(S) == CHOOSE i \in S : \A j \in S : j <= i

\* Jump k has a recorded jump of its condition at most d bytes back.
PriorWithin(k, d) ==
    /\ PriorJumps(k) # {}
    /\ emitted_jmps[k].at - emitted_jmps[MostRecent(PriorJumps(k))].at <= d

ShortJumpToPrior(k) ==
    /\ emitted_jmps[k].size = ShortJumpSize
    /\ emitted_jmps[k].target = emitted_jmps[MostRecent(PriorJumps(k))].at
    /\ ~emitted_jmps[k].recorded

RecordedJumpToSlotEnd(k) ==
    LET e == emitted_jmps[k]
    IN  /\ e.target = SlotSize
        /\ e.recorded
        /\ InSeq(next_slot_jmps, <<e.at, e.at + e.size, e.condition>>)

\* The jumps of one condition, in emission order, lie within d bytes of
\* the first of them.
RunWithin(c, d) ==
    \A k \in 1..Len(emitted_jmps) :
        emitted_jmps[k].condition = c =>
            \A i \in 1..k :
                emitted_jmps[i].condition = c => emitted_jmps[k].at - emitted_jmps[i].at <= d

RunSharesFirstJump(c) ==
    \A k \in 1..Len(emitted_jmps) :
        (emitted_jmps[k].condition = c /\ PriorJumps(k) # {}) =>
            /\ emitted_jmps[k].size = ShortJumpSize
            /\ \A i \in 1..(k - 1) :
                  emitted_jmps[i].condition = c => emitted_jmps[k].target <= emitted_jmps[i].at

GuardJumpsWithin(d) ==
    /\ \A k \in 1..Len(emitted_jmps) :
          IF PriorWithin(k, d) THEN ShortJumpToPrior(k) ELSE RecordedJumpToSlotEnd(k)
    /\ \A c \in Conditions : RunWithin(c, d) => RunSharesFirstJump(c)

\* C15: a guard jump whose most recent recorded predecessor of the same
\* condition is within 127 bytes is a two-byte jump to that predecessor;
\* any other guard jump goes to the slot end and is recorded as (emit
\* offset, end offset, condition).  In a run of guards of one condition
\* that all lie within 127 bytes of the first, the second and later jumps
\* are two-byte jumps to the first.
C15_ShortJumpWithin127 == GuardJumpsWithin(127)

\* What the code does: the two-byte form reaches 126 bytes back; at 127
\* the jump still goes to the predecessor, in the six-byte form.
JumpsAsEmitted ==
    /\ \A k \in 1..Len(emitted_jmps) :
          IF PriorWithin(k, 126) THEN ShortJumpToPrior(k)
          ELSE IF PriorWithin(k, 127)
               THEN /\ emitted_jmps[k].size = LongJumpSize
                    /\ emitted_jmps[k].target = emitted_jmps[MostRecent(PriorJumps(k))].at
                    /\ ~emitted_jmps[k].recorded
               ELSE RecordedJumpToSlotEnd(k)
    /\ \A c \in Conditions : RunWithin(c, 126) => RunSharesFirstJump(c)

\* How often object p stands in a list of pins.
PinsOf(pins, p) == Cardinality({k \in 1..Len(pins) : pins[k] = p})

\* The last step was a call of addGCReference.
Pinning == Len(gc_references') = Len(gc_references) + 1

PinnedObject == gc_references'[Len(gc_references')]

\* A call of addGCReference raises the refcount of its object by one and
\* touches no other object.
PinIncrementsOnce ==
    Pinning =>
        /\ py_objs'[PinnedObject].refcnt = py_objs[PinnedObject].refcnt + 1
        /\ \A p \in PyObjects \ {PinnedObject} : py_objs'[p] = py_objs[p]

\* Every reference taken for a pin is in the pin list, with the slot, or
\* given back, and the refcount is what the owner and the pins make it.
PinsAccounted ==
    \A p \in PyObjects :
        /\ py_objs[p].increfs =
              PinsOf(gc_references, p) + PinsOf(slot_gc_references, p) + py_objs[p].decrefs
        /\ py_objs[p].refcnt =
              (IF py_objs[p].released THEN 0 ELSE 1) + py_objs[p].increfs - py_objs[p].decrefs

PinsAfterAbort ==
    slot = "aborted" =>
        /\ gc_references = <<>>
        /\ slot_gc_references = <<>>
        /\ \A p \in PyObjects : py_objs[p].decrefs = py_objs[p].increfs

PinsAfterCommit ==
    slot = "committed" =>
        /\ gc_references = <<>>
        /\ \A p \in PyObjects :
              /\ py_objs[p].decrefs = 0
              /\ PinsOf(slot_gc_references, p) = py_objs[p].increfs

TypeGuardedLoad ==
    /\ slot = "committed"
    /\ scenario.num_args = 1
    /\ vars[1].reftype # "OWNED"
    /\ Len(actions) = 4
    /\ actions[1].kind = "getAttr" /\ actions[1].v = 1 /\ actions[1].offset = 16
    /\ actions[2].kind = "guard" /\ actions[2].v = actions[1].result
    /\ isLargeConstant(vars[actions[2].val].constant_value)
    /\ vars[actions[1].result].reftype = "UNKNOWN"
    /\ actions[3].kind = "getAttr" /\ actions[3].v = 1 /\ actions[3].offset = 32
    /\ vars[actions[3].result].reftype = "BORROWED"
    /\ actions[4].kind = "returning" /\ actions[4].v = actions[3].result

RECURSIVE OpsFrom(_)
OpsFrom(k) == IF k > Len(code) THEN <<>> ELSE <<code[k].op>> \o OpsFrom(k + 1)

\* The operands of the instructions that the two sequences share: cls is
\* loaded from [obj + 16], compared with the register the constant was
\* put in, and x is loaded from [obj + 32] into the return register.
GuardedLoadOperands ==
    /\ code[1].src = forArg(0) /\ code[1].imm = 16
    /\ code[2].imm = vars[actions[2].val].constant_value
    /\ code[3].dst = code[1].dst /\ code[3].src = code[2].dst
    /\ code[2].dst # code[1].dst
    /\ code[5].src = forArg(0) /\ code[5].imm = 32
    /\ code[5].dst = scenario.return_location

\* C20: the type-guarded attribute load emits exactly: load cls,
\* materialize the constant in a register, compare, conditional jump to
\* the slow path, load x into the return register, jump to the
\* continuation; no other instruction, no refcount increment or decrement.
C20_GuardedLoadSequence ==
    TypeGuardedLoad =>
        /\ OpsFrom(1) = <<"mov_load", "mov_imm", "cmp", "jmp_cond", "mov_load", "jmp">>
        /\ GuardedLoadOperands

\* As C20, with the increment that makes the borrowed x a reference the
\* caller owns between the load of x and the jump to the continuation.
C20_GuardedLoadSequenceWithIncref ==
    TypeGuardedLoad =>
        /\ OpsFrom(1) =
              <<"mov_load", "mov_imm", "cmp", "jmp_cond", "mov_load", "incref", "jmp">>
        /\ GuardedLoadOperands
        /\ code[6].src = scenario.return_location /\ code[6].v = actions[4].v

C20_Witness == TypeGuardedLoad /\ Len(code) = 7

\* A committed rewrite in which actions k, k + 1 and k + 2 are those of
\* replaceAttr(offset, item, prev_nullable = false) on a container, item
\* being an owned reference.
ReplaceAt(k) ==
    /\ slot = "committed"
    /\ k + 2 <= Len(actions)
    /\ actions[k].kind = "getAttr"
    /\ actions[k + 1].kind = "setAttr"
    /\ actions[k + 1].v = actions[k].v /\ actions[k + 1].offset = actions[k].offset
    /\ actions[k + 1].consumed_refs = <<actions[k + 1].val>>
    /\ vars[actions[k + 1].val].reftype = "OWNED"
    /\ actions[k + 2].kind = "decref" /\ actions[k + 2].v = actions[k].result

\* The instructions with operation op that action number k emitted for
\* variable v.
EmittedBy(k, op, v) ==
    {i \in 1..Len(code) : code[i].op = op /\ code[i].act = k - 1 /\ code[i].v = v}

\* The old value is loaded before the item is stored, the item is never
\* incref'd, and the old value is decref'd, the deallocator called, after
\* the store.
HandoffOrder(k) ==
    LET prev == actions[k].result
        item == actions[k + 1].val
    IN  /\ \E l \in EmittedBy(k, "mov_load", prev), st \in EmittedBy(k + 1, "mov_store", item),
              d \in EmittedBy(k + 2, "decref", prev), c \in EmittedBy(k + 2, "callq_mem", prev) :
              /\ l < st /\ st < d /\ d < c
              /\ code[l].imm = actions[k].offset /\ code[st].imm = actions[k].offset
              /\ code[l].src = code[st].dst
        /\ \A i \in 1..Len(code) : code[i].op = "incref" => code[i].v # item

\* The decref-info table has an entry at the deallocator call of action
\* k + 2 that lists a location of the old value.
DeallocInfoListsPrev(k) ==
    \E c \in EmittedBy(k + 2, "callq_mem", actions[k].result), n \in 1..Len(decref_infos) :
        /\ decref_infos[n].ip = c
        /\ \E e \in decref_infos[n].locs : e.v = actions[k].result

\* C21: in the replace_attr handoff the old attribute value is loaded
\* before the new item is stored, the item is not incref'd, the old value
\* is decref'd after the store, and the decref-info table has an entry at
\* the deallocator call of that decref listing the old value's location.
C21_HandoffWithDecrefInfo ==
    \A k \in 1..Len(actions) : ReplaceAt(k) => HandoffOrder(k) /\ DeallocInfoListsPrev(k)

\* As C21, except that the deallocator call of the decref registers no
\* decref-info entry: no entry of the table belongs to the decref action.
C21_HandoffNoDecrefInfo ==
    \A k \in 1..Len(actions) :
        ReplaceAt(k) =>
            /\ HandoffOrder(k)
            /\ \A n \in 1..Len(decref_infos) : decref_infos[n].act # k + 1

C21_Witness ==
    /\ ReplaceAt(1)
    /\ phase = "done"
    /\ actions[1].v = args[1] /\ actions[2].val = args[2] /\ actions[1].offset = 24

\* Action k registers an owned attribute that no later action deregisters.
Unmatched(k) ==
    /\ actions[k].kind = "registerOwnedAttr"
    /\ \A j \in (k + 1)..Len(actions) :
          ~(/\ actions[j].kind = "deregisterOwnedAttr"
            /\ actions[j].v = actions[k].v /\ actions[j].offset = actions[k].offset)

\* C22: when a registerOwnedAttr(var, k) is not matched by a
\* deregisterOwnedAttr(var, k) before commit, commit stops at the assertion
\* 'missing a call to deregisterOwnedAttr' and the slot is not committed.
C22_MissingDeregisterStopsCommit ==
    (phase # "collect" /\ \E k \in 1..Len(actions) : Unmatched(k)) =>
        /\ "commit:owned_attrs" \in dbg
        /\ slot # "committed"

\* A rewrite committed with an owned attribute still registered, the
\* assertion at the head of commit never having failed.
C22_CommittedStillRegistered ==
    /\ slot = "committed"
    /\ owned_attrs # {}
    /\ \E k \in 1..Len(actions) : Unmatched(k)
    /\ "commit:owned_attrs" \notin dbg

\* The entries of alloc_log that are calls of allocReg for any register.
AnyRegCalls ==
    {n \in 1..Len(alloc_log) : alloc_log[n].kind = "allocReg" /\ alloc_log[n].dest = AnyReg}

\* Register r, as call e of allocReg found it, could not be taken: it is
\* the register to avoid, or it holds an entry argument in its argument
\* location while guards remain, or a variable with no use left.
Excluded(e, r) ==
    \/ Reg(r) = e.otherThan
    \/ /\ Reg(r) \in DOMAIN e.before.vbl
       /\ LET var == e.before.vars[e.before.vbl[Reg(r)]]
          IN  \/ e.before.guarding /\ var.is_arg /\ var.arg_loc = Reg(r)
              \/ var.next_use = Len(var.uses)

\* Call e of allocReg found no free register and no register to spill.
NoVictim(e) == \A r \in e.valid : Excluded(e, r)

\* C23: an allocation of any register that finds no free register and no
\* spillable victim sets failed, so that the rewrite is aborted; it fails
\* no assertion and spills nothing.
C23_NoVictimSetsFailed ==
    \A n \in AnyRegCalls :
        NoVictim(alloc_log[n]) =>
            /\ alloc_log[n].after.failed
            /\ alloc_log[n].after.dbg = alloc_log[n].before.dbg
            /\ alloc_log[n].after.crash = ""
            /\ alloc_log[n].after.vbl = alloc_log[n].before.vbl
            /\ alloc_log[n].after.ncode = alloc_log[n].before.ncode
            /\ slot # "committed"

\* An allocation without a victim after which register 0, the register to
\* avoid, has been spilled and handed out, failed unset.
C23_SpillsRegisterZero ==
    \E n \in AnyRegCalls :
        /\ NoVictim(alloc_log[n])
        /\ ~alloc_log[n].after.failed
        /\ alloc_log[n].reg = RAX /\ alloc_log[n].otherThan = Reg(RAX)
        /\ alloc_log[n].after.ncode > alloc_log[n].before.ncode

\* The instructions that set the flags a guard's jump tests.
CompareOps == {"cmp", "cmp_imm", "test", "cmp_mem", "cmp_mem_imm"}

\* The instruction at k is a guard's conditional jump and the one at i the
\* compare or test it belongs to: the last one before it.
CompareOf(i, k) ==
    /\ code[k].op = "jmp_cond"
    /\ i < k
    /\ code[i].op \in CompareOps
    /\ \A j \in (i + 1)..(k - 1) : code[j].op \notin CompareOps

\* The instruction at i is the compare or test of a guard (cmp and to_bool
\* actions compare too, for a setcc).
GuardCompare(i) ==
    /\ code[i].op \in CompareOps
    /\ code[i].act >= 0
    /\ actions[code[i].act + 1].kind \in {"guard", "attrGuard"}

\* C24: between the compare or test of a guard and its conditional jump
\* only register moves, loads, spills to the stack and lea are emitted,
\* for re-pinning the arguments and the live-outs; nothing that changes
\* the flags (zeroing by xor, add, inc, dec, cmp, test).
C24_FlagsKeptUntilJump ==
    /\ \A k \in 1..Len(code) :
          code[k].op = "jmp_cond" =>
              \E i \in 1..(k - 1) : CompareOf(i, k) /\ code[i].act = code[k].act
    /\ \A i \in 1..Len(code), j \in 1..Len(code) :
          (/\ GuardCompare(i)
           /\ i < j
           /\ \A m \in (i + 1)..j : code[m].op # "jmp_cond")
          => code[j].op \in {"mov", "mov_load", "lea", "movsd"}

\* A guard whose compare is followed by the move of an entry argument
\* back into its argument register, and then by the jump.
C24_Witness ==
    \E k \in 1..Len(code), i \in 1..Len(code) :
        /\ CompareOf(i, k)
        /\ \E j \in (i + 1)..(k - 1), a \in 1..Len(args) :
              /\ code[j].op = "mov"
              /\ code[j].v = args[a]
              /\ code[j].dst = vars[args[a]].arg_loc

\* Register r was free when call e of allocReg was made.
FreeAt(e, r) == Reg(r) \notin DOMAIN e.before.vbl

\* uses[next_use] of the variable that held register r at call e.
NextUseOf(e, r) ==
    LET var == e.before.vars[e.before.vbl[Reg(r)]] IN var.uses[var.next_use + 1]

\* What call e of allocReg for any register returned: a register of the
\* valid set other than otherThan, unmapped on return unless the rewrite
\* failed; a free one if there was one, else the spillable register whose
\* occupant is used farthest in the future.
ChoiceAsSpecified(e) ==
    /\ e.reg \in e.valid
    /\ Reg(e.reg) # e.otherThan
    /\ e.after.failed \/ Reg(e.reg) \notin DOMAIN e.after.vbl
    /\ IF \E r \in e.valid : Reg(r) # e.otherThan /\ FreeAt(e, r)
       THEN FreeAt(e, e.reg)
       ELSE /\ ~Excluded(e, e.reg)
            /\ \A r \in e.valid : ~Excluded(e, r) => NextUseOf(e, r) <= NextUseOf(e, e.reg)

\* C25: allocReg(AnyReg, otherThan, valid) returns a register of valid
\* other than otherThan that is unmapped on return (unless failed): a free
\* one if any, else the occupied register whose occupant has the largest
\* uses[next_use]; a register holding an entry argument in its argument
\* location while guarding, or a variable without remaining uses, is
\* never chosen.
C25_AnyRegChoice ==
    \A n \in AnyRegCalls : ChoiceAsSpecified(alloc_log[n])

\* The same of the calls that find a free register or a victim.
C25_ChoiceWhenVictimExists ==
    \A n \in AnyRegCalls : ~NoVictim(alloc_log[n]) => ChoiceAsSpecified(alloc_log[n])

\* A call that spilled the candidate used farthest in the future, another
\* candidate being used sooner.
C25_SpilledFarthest ==
    \E n \in AnyRegCalls :
        /\ ~FreeAt(alloc_log[n], alloc_log[n].reg)
        /\ ~NoVictim(alloc_log[n])
        /\ \E r \in alloc_log[n].valid :
              /\ ~Excluded(alloc_log[n], r)
              /\ NextUseOf(alloc_log[n], r) < NextUseOf(alloc_log[n], alloc_log[n].reg)

\* The entries of alloc_log that are calls of spillRegister on an occupied
\* register which returned with failed unset.
SpillCalls ==
    {n \in 1..Len(alloc_log) :
        /\ alloc_log[n].kind = "spillRegister"
        /\ alloc_log[n].dest \in DOMAIN alloc_log[n].before.vbl
        /\ ~alloc_log[n].after.failed /\ alloc_log[n].after.crash = ""}

\* The locations of sequence new that are not in sequence old.
Gained(old, new) ==
    {new[k] : k \in 1..Len(new)} \ {old[k] : k \in 1..Len(old)}

\* Spill e moved the value to location l: a callee-save allocatable
\* register that was free or a scratch slot that was free, by one move
\* out of the spilled register.
MovedTo(e, l) ==
    /\ l \notin DOMAIN e.before.vbl
    /\ \/ l.type = "Register" /\ l.n \in scenario.allocatable_regs /\ isCalleeSave(l.n)
       \/ /\ l.type = "Scratch"
          /\ \A r \in scenario.allocatable_regs :
                (isCalleeSave(r) /\ Reg(r) # e.otherThan) => Reg(r) \in DOMAIN e.before.vbl
    /\ e.after.ncode = e.before.ncode + 1
    /\ code[e.after.ncode].op = "mov"
    /\ code[e.after.ncode].dst = l /\ code[e.after.ncode].src = e.dest

\* What C26 says of one spill.
SpillKeepsValue(e) ==
    LET v == e.before.vbl[e.dest]
        old == e.before.vars[v]
        new == e.after.vars[v]
    IN  /\ e.dest \notin DOMAIN e.after.vbl
        /\ ~isInLocation(new, e.dest)
        /\ \A w \in 1..Len(e.after.vars) : w # v => e.after.vars[w] = e.before.vars[w]
        /\ \/ /\ Gained(old.locations, new.locations) = {}
              /\ Len(new.locations) = Len(old.locations) - 1
              /\ Len(new.locations) > 0 \/ Rematerializable(old)
              /\ e.after.ncode = e.before.ncode
           \/ /\ Len(old.locations) = 1 /\ Len(new.locations) = 1
              /\ ~Rematerializable(old)
              /\ MovedTo(e, new.locations[1])
              /\ e.after.vbl[new.locations[1]] = v

\* The variables that exist in the emit phase with a value: arguments,
\* live-outs, constants and the results of the actions already run.
Defined(v) ==
    \/ vars[v].is_arg \/ vars[v].is_constant \/ InSeq(live_outs, v)
    \/ \E k \in 1..Len(run_log) : actions[run_log[k] + 1].result = v

SlotOwners(st, l) ==
    {v \in 1..Len(st.vars) :
        \/ isInLocation(st.vars[v], l)
        \/ /\ isScratchAllocation(st.vars[v])
           /\ l.n >= st.vars[v].scratch_allocation[1] * 8
           /\ l.n < (st.vars[v].scratch_allocation[1] + st.vars[v].scratch_allocation[2]) * 8}

\* Every occupied scratch slot has one owner, a spilled variable or a
\* scratch allocation, and every slot of a scratch allocation is occupied
\* by the placeholder.
SlotsOwnedOnce(st) ==
    /\ \A l \in DOMAIN st.vbl :
          l.type = "Scratch" =>
              /\ Cardinality(SlotOwners(st, l)) = 1
              /\ \A v \in SlotOwners(st, l) :
                    IF isInLocation(st.vars[v], l) THEN st.vbl[l] = v
                    ELSE st.vbl[l] = LOCATION_PLACEHOLDER
    /\ \A o \in ScratchOffsets :
          SlotOwners(st, Scratch(o)) # {} => Scratch(o) \in DOMAIN st.vbl

\* The calls of _allocate noted in alloc_log.
AllocateCalls == {k \in 1..Len(alloc_log) : alloc_log[k].kind = "allocate"}

\* The first slots of the runs of n free slots before call e.
FreeRuns(e) ==
    {a \in 0..((scenario.scratch_size \div 8) - e.n) :
        \A j \in a..(a + e.n - 1) : Scratch(j * 8) \notin DOMAIN e.before.vbl}

\* What C27 says of one call of _allocate.
AllocatesFirstRun(e) ==
    IF FreeRuns(e) = {}
    THEN e.after.failed /\ e.after.vbl = e.before.vbl /\ e.after.vars = e.before.vars
    ELSE /\ \A a \in FreeRuns(e) : e.a <= a
         /\ e.a \in FreeRuns(e)
         /\ e.after.failed = e.before.failed
         /\ IF Len(e.before.vars[e.result].uses) = 0
            THEN e.after.vbl = e.before.vbl
            ELSE /\ e.after.vars[e.result].scratch_allocation = <<e.a, e.n>>
                 /\ \A l \in DOMAIN e.after.vbl :
                       l \in DOMAIN e.before.vbl \/ e.result \in SlotOwners(e.after, l)

\* C27: after any sequence of allocate(n), allocate_and_copy, spills and
\* releases every occupied scratch slot has exactly one owner (so that two
\* live scratch allocations never overlap and no spilled variable's slot
\* lies inside one); allocate(n) reserves the first run of n consecutive
\* free slots; when there is no such run failed is set and no slot is
\* reserved.
C27_ScratchSlotsOwnedOnce ==
    /\ SlotsOwnedOnce([vbl |-> vars_by_location, vars |-> vars])
    /\ \A k \in 1..Len(alloc_log) : SlotsOwnedOnce(alloc_log[k].after)
    /\ \A k \in AllocateCalls : AllocatesFirstRun(alloc_log[k])

\* An array of two slots allocated behind a slot that holds a spilled
\* variable, and an allocation that found no run.
C27_Witness ==
    /\ \E k \in AllocateCalls :
          /\ alloc_log[k].n = 2 /\ alloc_log[k].a = 1
          /\ Scratch(0) \in DOMAIN alloc_log[k].before.vbl
          /\ alloc_log[k].before.vbl[Scratch(0)] # LOCATION_PLACEHOLDER
          /\ isScratchAllocation(alloc_log[k].after.vars[alloc_log[k].result])
    /\ \E k \in AllocateCalls : FreeRuns(alloc_log[k]) = {}

\* The calls of allocReg in alloc_log that came back.
ReturnedCalls ==
    {n \in 1..Len(alloc_log) :
        alloc_log[n].kind = "allocReg" /\ alloc_log[n].after.crash = ""}

\* The registers that spill e moved the spilled value into.
SpillTargets(e) ==
    LET v == e.before.vbl[e.dest]
    IN  {l \in Gained(e.before.vars[v].locations, e.after.vars[v].locations) :
            l.type = "Register"}

\* The requests for one given register made on the call path: R11 for the
\* far call, the argument registers, RAX for the result.
FixedRequests ==
    {n \in ReturnedCalls : alloc_log[n].dest.type = "Register"}

C28_SpillIntoCalleeSave ==
    \E n \in SpillCalls : \E l \in SpillTargets(alloc_log[n]) : isCalleeSave(l.n)

\* The iterations of the live-out placement loop noted in alloc_log.
Sweeps == {n \in 1..Len(alloc_log) : alloc_log[n].kind = "sweep"}

\* The live-outs that are not in their register in allocator state st.
PendingLiveOuts(st) ==
    {i \in 1..Len(live_outs) :
        ~isInLocation(st.vars[live_outs[i]], fromDwarf(live_out_regs[i]))}

\* Pending live-out i waits for pending live-out k: k's variable is in the
\* register that i has to go to.
WaitsFor(st, i, k) ==
    /\ fromDwarf(live_out_regs[i]) \in DOMAIN st.vbl
    /\ st.vbl[fromDwarf(live_out_regs[i])] = live_outs[k]

\* The pending moves contain a cycle of target registers: a set of pending
\* live-outs each of which waits for another one of the set.
HasCycle(st) ==
    \E S \in SUBSET PendingLiveOuts(st) :
        S # {} /\ \A i \in S : \E k \in S : WaitsFor(st, i, k)

AllLiveOuts == 1..Len(live_outs)

\* C29: the placement loop of commit terminates: every iteration places at
\* least one more live-out or is the last one and ends in the
\* release-assert, so there are at most as many iterations as live-outs;
\* and when the pending moves at the start of the loop contain no cycle of
\* target registers the loop ends with every live-out in its register and
\* without the release-assert.
C29_SweepTerminates ==
    /\ Cardinality(Sweeps) <= Len(live_outs)
    /\ \A n \in Sweeps :
          /\ alloc_log[n].moved \subseteq alloc_log[n].placed
          /\ alloc_log[n].placed \subseteq AllLiveOuts
          /\ \/ Cardinality(alloc_log[n].placed) > Cardinality(alloc_log[n].moved)
             \/ /\ crash = "commit:live_out_sweep_no_progress"
                /\ \A m \in Sweeps : m <= n
          /\ \A m \in Sweeps :
                (m > n /\ \A k \in Sweeps : ~(n < k /\ k < m))
                   => alloc_log[m].moved = alloc_log[n].placed
    /\ \A n \in Sweeps :
          (alloc_log[n].moved = {} /\ ~HasCycle(alloc_log[n].before))
             => /\ crash # "commit:live_out_sweep_no_progress"
                /\ \E m \in Sweeps : alloc_log[m].placed = AllLiveOuts
                /\ "commit:live_out_in_place" \notin dbg

\* A commit whose placement needed a second iteration: in the first one a
\* live-out found its register held by another live-out that was placed
\* later in the same iteration.
C29_Witness ==
    /\ slot = "committed"
    /\ \E n \in Sweeps :
          /\ alloc_log[n].moved # {}
          /\ alloc_log[n].placed = AllLiveOuts
    /\ \E n \in Sweeps :
          /\ alloc_log[n].moved = {}
          /\ \E i, k \in PendingLiveOuts(alloc_log[n].before) :
                WaitsFor(alloc_log[n].before, i, k)

\* The placement loop ended in the release-assert.
C29_SweepStopped == crash = "commit:live_out_sweep_no_progress"

\* a + b on 64-bit values.
ValAdd(a, b) ==
    IF a.lo + b.lo < 1073741824 THEN Val(a.hi + b.hi, a.lo + b.lo)
    ELSE Val(a.hi + b.hi + 1, a.lo + b.lo - 1073741824)

\* v fits a signed 32-bit field: -2^31 <= v < 2^31.
FitsSigned32(v) == v.hi \in -2..1

\* What running the emitted code leaves in registers and slots, as far as
\* it is a known constant: the partial map after instruction n, given the
\* map m before it.  A call or a decref forgets everything, any other
\* instruction with a destination forgets the destination.
Known(m, l, val) == [x \in (DOMAIN m) \cup {l} |-> IF x = l THEN val ELSE m[x]]

Forgotten(m, l) == [x \in (DOMAIN m) \ {l} |-> m[x]]

Executed(m, n) ==
    LET i == code[n]
    IN  IF i.op = "clear_reg" THEN Known(m, i.dst, ValOf(0))
        ELSE IF i.op = "mov_imm" THEN Known(m, i.dst, i.imm)
        ELSE IF i.op = "mov" /\ i.src \in DOMAIN m THEN Known(m, i.dst, m[i.src])
        ELSE IF i.op = "lea" /\ i.src.type = "Register" /\ i.src \in DOMAIN m
        THEN Known(m, i.dst, ValAdd(m[i.src], i.imm))
        ELSE IF i.op \in {"call_rel32", "callq_mem", "decref"} THEN <<>>
        ELSE Forgotten(m, i.dst)

RECURSIVE ContentsAfter(_)
ContentsAfter(n) == IF n = 0 THEN <<>> ELSE Executed(ContentsAfter(n - 1), n)

\* The calls of loadConstIntoReg noted in alloc_log.
ConstLoads ==
    {n \in 1..Len(alloc_log) :
        alloc_log[n].kind = "loadConstIntoReg" /\ alloc_log[n].after.crash = ""}

\* The registers in which some constant variable equal to val is, before
\* load e.
RegistersHolding(e, val) ==
    {r \in 0..(NumRegs - 1) :
        \E w \in 1..Len(e.before.vars) :
            /\ e.before.vars[w].is_constant
            /\ e.before.vars[w].constant_value = val
            /\ isInLocation(e.before.vars[w], Reg(r))}

\* The registers that hold a constant from which val is a signed 32-bit
\* offset away, before load e.
RegistersNear(e, val) ==
    {r \in 0..(NumRegs - 1) :
        /\ Reg(r) \in DOMAIN e.before.vbl
        /\ e.before.vbl[Reg(r)] # LOCATION_PLACEHOLDER
        /\ e.before.vars[e.before.vbl[Reg(r)]].is_constant
        /\ FitsSigned32(ValSub(val, e.before.vars[e.before.vbl[Reg(r)]].constant_value))}

\* The first strategy of the four that applies to load e.
FirstStrategy(e) ==
    IF e.val = ValOf(0) THEN "zero"
    ELSE IF RegistersHolding(e, e.val) # {} THEN "copy"
    ELSE IF ~FitsSigned32(e.val) /\ RegistersNear(e, e.val) # {} THEN "lea"
    ELSE "imm64"

\* Load e emitted what the strategy emits.
UsesStrategy(e, strategy) ==
    LET first == e.before.ncode + 1
        num == e.after.ncode - e.before.ncode
    IN  IF strategy = "zero"
        THEN num = 1 /\ code[first].op = "clear_reg" /\ code[first].dst = Reg(e.reg)
        ELSE IF strategy = "copy"
        THEN \/ num = 0 /\ e.reg \in RegistersHolding(e, e.val)
             \/ /\ num = 1 /\ code[first].op = "mov" /\ code[first].dst = Reg(e.reg)
                /\ code[first].src.type = "Register"
                /\ code[first].src.n \in RegistersHolding(e, e.val) \ {e.reg}
        ELSE IF strategy = "lea"
        THEN /\ num = 1 /\ code[first].op = "lea" /\ code[first].dst = Reg(e.reg)
             /\ code[first].src.type = "Register"
             /\ code[first].src.n \in RegistersNear(e, e.val)
             /\ code[first].imm =
                   ValSub(e.val, e.before.vars[e.before.vbl[code[first].src]].constant_value)
        ELSE /\ num = 1 /\ code[first].op = "mov_imm" /\ code[first].dst = Reg(e.reg)
             /\ code[first].imm = e.val

\* C30: loadConstIntoReg(v, dst) uses the first strategy that applies, in
\* the order zeroing idiom for 0, register copy when a constant variable
\* equal to v is in a register (nothing when that register is dst), lea
\* from a register holding a constant a signed 32-bit offset away when v
\* does not fit signed 32 bits, mov imm64 otherwise; and after it the
\* emitted code has left exactly v in dst.
C30_LoadConstStrategy ==
    \A n \in ConstLoads :
        /\ UsesStrategy(alloc_log[n], FirstStrategy(alloc_log[n]))
        /\ Reg(alloc_log[n].reg) \in DOMAIN ContentsAfter(alloc_log[n].after.ncode)
        /\ ContentsAfter(alloc_log[n].after.ncode)[Reg(alloc_log[n].reg)] = alloc_log[n].val

\* One rewrite loaded constants by lea and by mov imm64.
C30_Witness ==
    /\ \E n \in ConstLoads : FirstStrategy(alloc_log[n]) = "lea"
    /\ \E n \in ConstLoads : FirstStrategy(alloc_log[n]) = "imm64"

\* A load of 0.
C30_WitnessZero == \E n \in ConstLoads : FirstStrategy(alloc_log[n]) = "zero"

\* A load by a copy out of another register.
C30_WitnessCopy ==
    \E n \in ConstLoads :
        /\ FirstStrategy(alloc_log[n]) = "copy"
        /\ alloc_log[n].after.ncode = alloc_log[n].before.ncode + 1

(***************************************************************************)
(* The compare of a guard.                                                 *)
(***************************************************************************)
Compares == {n \in 1..Len(alloc_log) : alloc_log[n].kind = "compare"}

\* The value the guard of compare e is against.
ComparedValue(e) == e.before.vars[e.c].constant_value

\* The compare instruction of e.
CompareInstr(e) == code[e.after.ncode]

\* The variable of e is in its register when the compare is emitted, by
\* the map and by the code: nothing emitted since the variable was
\* brought in writes that register.
HoldsVariable(e) ==
    /\ Reg(e.var_reg) \in DOMAIN e.mid.vbl /\ e.mid.vbl[Reg(e.var_reg)] = e.v
    /\ Reg(e.var_reg) \in DOMAIN e.after.vbl /\ e.after.vbl[Reg(e.var_reg)] = e.v
    /\ \A k \in (e.mid.ncode + 1)..(e.after.ncode - 1) : code[k].dst # Reg(e.var_reg)

\* cmp reg, imm32 (test reg, reg against zero); the allocator did nothing
\* between bringing the variable in and the compare.
ImmediateForm(e) ==
    /\ e.reg = NoneLoc
    /\ CompareInstr(e).op = (IF ComparedValue(e) = ValOf(0) THEN "test" ELSE "cmp_imm")
    /\ CompareInstr(e).dst = Reg(e.var_reg)
    /\ ComparedValue(e) = ValOf(0) => CompareInstr(e).src = Reg(e.var_reg)
    /\ ComparedValue(e) # ValOf(0) => CompareInstr(e).imm = ComparedValue(e)
    /\ e.after.ncode = e.mid.ncode + 1
    /\ e.after.vbl = e.mid.vbl /\ e.after.vars = e.mid.vars

\* cmp reg, reg with the constant in a register of its own.
RegisterForm(e) ==
    /\ e.reg.type = "Register" /\ e.reg # Reg(e.var_reg)
    /\ CompareInstr(e).op = "cmp"
    /\ CompareInstr(e).dst = Reg(e.var_reg) /\ CompareInstr(e).src = e.reg
    /\ e.reg \in DOMAIN e.after.vbl /\ e.after.vbl[e.reg] = e.c

\* C31: the compare of guard_eq / guard_ne of v against c is the immediate
\* form (test against zero) with no register taken for c when c fits a
\* signed 32-bit immediate, and otherwise a register-register compare with
\* c in a register other than v's; either way v's register still holds v
\* when the compare is emitted.
C31_GuardCompare ==
    \A n \in Compares :
        /\ IF FitsSigned32(ComparedValue(alloc_log[n]))
           THEN ImmediateForm(alloc_log[n])
           ELSE RegisterForm(alloc_log[n])
        /\ HoldsVariable(alloc_log[n])

\* The claim of C31 for the compares of a guard on a variable other than
\* the constant itself, when the allocator found a register or a victim.
C31_CompareWhenRegisterFound ==
    \A n \in Compares :
        (alloc_log[n].v # alloc_log[n].c /\ "allocReg:found" \notin alloc_log[n].after.dbg)
        => /\ IF FitsSigned32(ComparedValue(alloc_log[n]))
              THEN ImmediateForm(alloc_log[n])
              ELSE RegisterForm(alloc_log[n])
           /\ HoldsVariable(alloc_log[n])

\* A committed slot whose guard compares a register with itself: the
\* constant was loaded over the variable.
C31_CompareClobbersVariable ==
    /\ slot = "committed"
    /\ \E n \in Compares :
          /\ alloc_log[n].v # alloc_log[n].c
          /\ alloc_log[n].reg = Reg(alloc_log[n].var_reg)
          /\ CompareInstr(alloc_log[n]).src = CompareInstr(alloc_log[n]).dst

\* The three forms of the compare in committed slots.
C31_Forms ==
    /\ slot = "committed"
    /\ \E n \in Compares : CompareInstr(alloc_log[n]).op = "test"
    /\ \E n \in Compares : CompareInstr(alloc_log[n]).op = "cmp_imm"
    /\ \E n \in Compares : CompareInstr(alloc_log[n]).op = "cmp"

(***************************************************************************)
(* addGuard on a constant.                                                 *)
(***************************************************************************)
\* The guard actions for equality whose variable is a constant.
ConstantGuardActions ==
    {i \in 1..Len(actions) :
        /\ actions[i].kind = "guard" /\ ~actions[i].negate
        /\ vars[actions[i].v].is_constant}

\* C32: guard_eq(v, c) on a constant variable v enqueues no action and adds
\* no use when the constant is c, and stops the process with a release
\* assertion when it is not; no such guard is ever in the action list.
C32_GuardOnConstant ==
    /\ \A k \in 1..Len(guard_log) :
          IF guard_log[k].before.vars[guard_log[k].v].constant_value = guard_log[k].val
          THEN /\ guard_log[k].after.crash = guard_log[k].before.crash
               /\ guard_log[k].after.actions = guard_log[k].before.actions
               /\ guard_log[k].after.vars = guard_log[k].before.vars
          ELSE /\ guard_log[k].after.crash = "addGuard:always_false"
               /\ guard_log[k].after.actions = guard_log[k].before.actions
               /\ k = Len(guard_log)
               /\ phase = "crashed" /\ slot = "none" /\ ~finished
               /\ actions = guard_log[k].before.actions
    /\ ConstantGuardActions = {}

\* An equality guard on a constant against its own value passed by, and one
\* against another value stopped the process.
C32_Witness ==
    /\ Len(guard_log) = 2
    /\ guard_log[1].before.vars[guard_log[1].v].constant_value = guard_log[1].val
    /\ guard_log[1].before.actions # <<>>
    /\ guard_log[2].before.vars[guard_log[2].v].constant_value # guard_log[2].val
    /\ crash = "addGuard:always_false"

(***************************************************************************)
(* Owned attributes in the decref info.                                    *)
(***************************************************************************)
\* The pairs (variable, byte offset) the client registers at some time.
OwnedAttrPairs ==
    {<<actions[i].v, actions[i].offset>> :
        i \in {n \in 1..Len(actions) : actions[n].kind = "registerOwnedAttr"}}

\* The actions that register or deregister pair p, as positions in the
\* action list.
OwnedAttrActions(p) ==
    {i \in 1..Len(actions) :
        /\ actions[i].kind \in {"registerOwnedAttr", "deregisterOwnedAttr"}
        /\ actions[i].v = p[1] /\ actions[i].offset = p[2]}

\* Pair p is registered when action a (counted from 0) runs: the last
\* action on p before it is a registration.
RegisteredAt(p, a) ==
    \E i \in OwnedAttrActions(p) :
        /\ i < a + 1 /\ actions[i].kind = "registerOwnedAttr"
        /\ \A d \in OwnedAttrActions(p) : d < a + 1 => d <= i

\* Action a runs after a registration of p and before its deregistration.
BetweenRegistrations(p, a) ==
    /\ RegisteredAt(p, a)
    /\ \E d \in OwnedAttrActions(p) : d > a + 1 /\ actions[d].kind = "deregisterOwnedAttr"

\* The variables as they were at the call decref-info entry e belongs to.
VarsAtEntry(e) ==
    call_log[CHOOSE j \in 1..Len(call_log) : call_log[j].ip = e.ip].vars

StackHomes(var) ==
    {i \in 1..Len(var.locations) : var.locations[i].type \in {"Scratch", "Stack"}}

HasStackHome(var) == StackHomes(var) # {} \/ isScratchAllocation(var)

\* The offset from the stack pointer of var's scratch or stack location.
StackOffsetOf(var) ==
    IF StackHomes(var) = {} THEN scenario.scratch_rsp_offset + var.scratch_allocation[1] * 8
    ELSE LET l == var.locations[Min(StackHomes(var))]
         IN  IF l.type = "Scratch" THEN scenario.scratch_rsp_offset + l.n ELSE l.n

OwnedAttrRecord(var, k) == [type |-> "StackIndirect", n |-> StackOffsetOf(var), n2 |-> k]

\* C33: a decref-info entry recorded at a throwing call after the
\* registerOwnedAttr action of (var, k) and before its deregisterOwnedAttr
\* action contains StackIndirect(stack offset of var's scratch or stack
\* location, k); an entry recorded before the registration or after the
\* deregistration does not, and no entry has more owned-attribute records
\* than pairs are registered.
C33_OwnedAttrPublished ==
    \A n \in 1..Len(decref_infos) :
        /\ \A p \in OwnedAttrPairs :
              /\ BetweenRegistrations(p, decref_infos[n].act) =>
                    /\ HasStackHome(VarsAtEntry(decref_infos[n])[p[1]])
                    /\ OwnedAttrRecord(VarsAtEntry(decref_infos[n])[p[1]], p[2])
                          \in decref_infos[n].attrs
              /\ ( /\ ~RegisteredAt(p, decref_infos[n].act)
                   /\ decref_infos[n].act + 1 \notin OwnedAttrActions(p)
                   /\ HasStackHome(VarsAtEntry(decref_infos[n])[p[1]]) ) =>
                    OwnedAttrRecord(VarsAtEntry(decref_infos[n])[p[1]], p[2])
                          \notin decref_infos[n].attrs
        /\ Cardinality(decref_infos[n].attrs)
              <= Cardinality({p \in OwnedAttrPairs :
                                \/ RegisteredAt(p, decref_infos[n].act)
                                \/ decref_infos[n].act + 1 \in OwnedAttrActions(p)})

\* A committed slot with a call between the registration and the
\* deregistration whose entry has the record, and the variable in a
\* scratch slot at that call.
C33_PublishedFromScratch ==
    /\ slot = "committed"
    /\ \E n \in 1..Len(decref_infos), p \in OwnedAttrPairs :
          /\ BetweenRegistrations(p, decref_infos[n].act)
          /\ StackHomes(VarsAtEntry(decref_infos[n])[p[1]]) # {}
          /\ decref_infos[n].attrs =
                {OwnedAttrRecord(VarsAtEntry(decref_infos[n])[p[1]], p[2])}

\* The claim of C33 for the entries taken while every registered variable
\* is in a scratch or stack slot, or is a scratch allocation.
C33_PublishedFromStack ==
    \A n \in 1..Len(decref_infos) :
        (\A p \in OwnedAttrPairs :
            (RegisteredAt(p, decref_infos[n].act)
               /\ Len(VarsAtEntry(decref_infos[n])[p[1]].locations) > 0)
            => VarsAtEntry(decref_infos[n])[p[1]].locations[1].type \in {"Scratch", "Stack"})
        => \A p \in OwnedAttrPairs :
              /\ BetweenRegistrations(p, decref_infos[n].act) =>
                    /\ HasStackHome(VarsAtEntry(decref_infos[n])[p[1]])
                    /\ OwnedAttrRecord(VarsAtEntry(decref_infos[n])[p[1]], p[2])
                          \in decref_infos[n].attrs
              /\ ( /\ ~RegisteredAt(p, decref_infos[n].act)
                   /\ decref_infos[n].act + 1 \notin OwnedAttrActions(p)
                   /\ HasStackHome(VarsAtEntry(decref_infos[n])[p[1]]) ) =>
                    OwnedAttrRecord(VarsAtEntry(decref_infos[n])[p[1]], p[2])
                          \notin decref_infos[n].attrs

\* A committed slot whose decref info names a register number as a stack
\* offset: the variable was in a callee-save register at the call.
C33_RegisterAsStackOffset ==
    /\ slot = "committed"
    /\ \E n \in 1..Len(decref_infos), p \in OwnedAttrPairs :
          /\ BetweenRegistrations(p, decref_infos[n].act)
          /\ VarsAtEntry(decref_infos[n])[p[1]].locations = <<Reg(RBX)>>
          /\ decref_infos[n].attrs = {[type |-> "StackIndirect", n |-> RBX, n2 |-> p[2]]}

(***************************************************************************)
(* The register of a setcc.                                                *)
(***************************************************************************)
Setccs == {i \in 1..Len(code) : code[i].op \in {"sete", "setne", "setnz"}}

\* The registers a setcc may write in this slot.
SetccRegisters == {RAX, RBX, RCX, RDX} \cap scenario.allocatable_regs

\* C34: every setcc the rewriter emits (sete / setne of a compare, setnz of
\* a truth test) writes a register of {RAX, RBX, RCX, RDX} that the slot
\* may allocate.
C34_SetccRegister ==
    \A i \in Setccs : code[i].dst.type = "Register" /\ code[i].dst.n \in SetccRegisters

\* The claim of C34 for the compares that ask for no particular register.
C34_CmpIntoAnyRegister ==
    \A i \in Setccs :
        (code[i].op \in {"sete", "setne"} /\ actions[code[i].act + 1].dest = AnyReg)
        => code[i].dst.n \in SetccRegisters

\* A committed slot with a setnz into RSI or RDI that no destination asked
\* for, and one with a sete or setne into a destination outside the set.
C34_SetnzOutsideSet ==
    /\ slot = "committed"
    /\ \E i \in Setccs :
          /\ code[i].op = "setnz" /\ actions[code[i].act + 1].dest = AnyReg
          /\ code[i].dst.n \in {RSI, RDI}

C34_SetneIntoDestination ==
    /\ slot = "committed"
    /\ \E i \in Setccs : code[i].op = "setne" /\ code[i].dst = Reg(RDI)

\* A compare under pressure: RAX, the one register fit for setcc, held a
\* live result and was spilled for the sete.
C34_SetccUnderPressure ==
    /\ slot = "committed"
    /\ \E i \in Setccs :
          /\ code[i].op = "sete" /\ code[i].dst = Reg(RAX)
          /\ \E n \in 1..Len(alloc_log) :
                /\ alloc_log[n].kind = "spillRegister" /\ alloc_log[n].act = code[i].act
                /\ alloc_log[n].dest = Reg(RAX)

(***************************************************************************)
(* C35.  The patchpoint initializer (PatchSpec).                           *)
(***************************************************************************)
PatchpointCalled == patchpoint # <<>>

PatchpointInfo == patchpoint[1]

RegsOf(regs) == {regs[i] : i \in 1..Len(regs)}

InstsOf(op) == {i \in 1..Len(PatchpointInfo.insts) : PatchpointInfo.insts[i].op = op}

\* How many of the three classes hold the register.
ClassesOf(ru) ==
    Cardinality({i \in 1..Len(PatchpointInfo.kept) : PatchpointInfo.kept[i] = ru})
    + Cardinality({i \in 1..Len(PatchpointInfo.regs_to_reload) : PatchpointInfo.regs_to_reload[i] = ru})
    + Cardinality({i \in 1..Len(PatchpointInfo.regs_to_spill) : PatchpointInfo.regs_to_spill[i] = ru})

\* A spilled register is stored before the slow-path call and loaded back
\* after it.
SpilledAroundCall(ru) ==
    \E c \in InstsOf("call") :
        /\ \E i \in InstsOf("push") : PatchpointInfo.insts[i].reg = ru /\ i < c
        /\ \E i \in InstsOf("pop") : PatchpointInfo.insts[i].reg = ru /\ i > c

SpilledOfType(type) ==
    Cardinality({ru \in RegsOf(PatchpointInfo.regs_to_spill) : ru.type = type})

\* C35: initializePatchpoint3 puts every live-out register in exactly one
\* of three classes - kept (a callee-save general-purpose register or
\* rsp), reloaded (a general-purpose register present in the remap map) or
\* spilled around the slow-path call; slowpath_start is end_addr minus
\* 13 + 7 per reloaded + 14 per spilled general-purpose + 18 per spilled
\* XMM register; slowpath_start >= start_addr is asserted; continue_addr
\* is end_addr when nothing is reloaded and the address of the first
\* reload instruction otherwise.
C35_Patchpoint ==
    PatchpointCalled =>
        LET I == PatchpointInfo
        IN  /\ \A d \in I.live_outs_in : ClassesOf(fromDwarf(d)) = 1
            /\ RegsOf(I.kept) \cup RegsOf(I.regs_to_reload) \cup RegsOf(I.regs_to_spill)
                   = {fromDwarf(d) : d \in I.live_outs_in}
            /\ \A ru \in RegsOf(I.kept) :
                   ru.type = "Register" /\ (ru.n = RSP \/ isCalleeSave(ru.n))
            /\ \A ru \in RegsOf(I.regs_to_reload) :
                   /\ ru.type = "Register" /\ ru.n \in I.remapped
                   /\ \E i \in InstsOf("reload") : I.insts[i].reg = ru
            /\ \A ru \in RegsOf(I.regs_to_spill) : SpilledAroundCall(ru)
            /\ Cardinality(InstsOf("push")) = Len(I.regs_to_spill)
            /\ Cardinality(InstsOf("pop")) = Len(I.regs_to_spill)
            /\ Cardinality(InstsOf("reload")) = Len(I.regs_to_reload)
            /\ I.slowpath_start
                   = I.end_addr - (13 + 7 * Len(I.regs_to_reload)
                                      + 14 * SpilledOfType("Register")
                                      + 18 * SpilledOfType("XMMRegister"))
            /\ I.slowpath_start < I.start_addr
                   => "initializePatchpoint3:slowpath_space" \in I.dbg
            /\ I.regs_to_reload = <<>> => I.continue_addr = I.end_addr
            /\ I.regs_to_reload # <<>>
                   => /\ InstsOf("reload") # {}
                      /\ I.continue_addr = I.insts[Min(InstsOf("reload"))].at
                      /\ \A i \in 1..Len(I.insts) :
                             I.insts[i].op # "reload" => I.insts[i].at + I.insts[i].size <= I.continue_addr

\* A call that keeps rbx, reloads rax, spills rdi and xmm0, with one-byte
\* displacements, so that the reloads start before end_addr - 7.
C35_AllThreeClasses ==
    /\ PatchpointCalled
    /\ RegsOf(PatchpointInfo.kept) = {Reg(RBX)}
    /\ RegsOf(PatchpointInfo.regs_to_reload) = {Reg(RAX)}
    /\ RegsOf(PatchpointInfo.regs_to_spill) = {Reg(RDI), XMM(0)}
    /\ PatchpointInfo.dbg = {}
    /\ PatchpointInfo.continue_addr < PatchpointInfo.end_addr - 7

(***************************************************************************)
(* C36.  Side effects and the guard prefix.                                *)
(***************************************************************************)
\* The instructions that change a reference count.
RefcountOps == {"incref", "decref"}

RefcountCodeWhileGuarding ==
    {k \in 1..Len(code) : code[k].op \in RefcountOps /\ code[k].guarding}

SideEffectingCallsWhileGuarding ==
    {j \in SideEffectingCalls : call_log[j].guarding}

DecrefReleasesWhileGuarding ==
    {r \in 1..Len(rel_log) : rel_log[r].decref # "none" /\ rel_log[r].guarding}

\* C36: nothing with a side effect is emitted while done_guarding is
\* false: no call with side effects, no incref for a consumed reference,
\* no decref, explicit or made by the release of an owned variable (an
\* owned variable that is not an argument and is last used by a guard
\* included).
C36_NoSideEffectsWhileGuarding ==
    /\ RefcountCodeWhileGuarding = {}
    /\ SideEffectingCallsWhileGuarding = {}
    /\ DecrefReleasesWhileGuarding = {}

\* The owned result of a call without side effects is last used by a
\* guard: its release there emits the decref ahead of on_done_guarding,
\* and the rewrite is committed.
C36_DecrefAtGuard ==
    /\ slot = "committed"
    /\ \E r \in DecrefReleasesWhileGuarding :
          /\ ~vars[rel_log[r].v].is_arg
          /\ actions[rel_log[r].act + 1].kind = "guard"
          /\ actions[rel_log[r].act + 1].v = rel_log[r].v
          /\ \E k \in RefcountCodeWhileGuarding :
                code[k].op = "decref" /\ code[k].v = rel_log[r].v
    /\ "_setupCall:done_guarding" \in dbg

\* The same release when a later guard follows: the decref is ahead of a
\* guard jump.
C36_DecrefAheadOfGuardJump ==
    /\ slot = "committed"
    /\ \E k \in RefcountCodeWhileGuarding :
          /\ code[k].op = "decref"
          /\ \E m \in (k + 1)..Len(code) : code[m].op = "jmp_cond"

\* A reference consumed by an action of the guard prefix: the incref is
\* emitted ahead of a guard jump.
C36_IncrefAheadOfGuardJump ==
    /\ slot = "committed"
    /\ \E k \in RefcountCodeWhileGuarding :
          /\ code[k].op = "incref"
          /\ actions[code[k].act + 2].kind = "call"
          /\ \E m \in (k + 1)..Len(code) : code[m].op = "jmp_cond"
    /\ "commit:isDoneGuarding" \in dbg

(***************************************************************************)
(* C37.  The balance of reference counts.                                  *)
(***************************************************************************)
\* The increfs commit() inserted for v's consumed references.
InsertedIncrefs(v) ==
    {k \in 1..Len(code) : code[k].op = "incref" /\ code[k].stage = "incref" /\ code[k].v = v}

Balanced(v) ==
    1 + Cardinality(InsertedIncrefs(v))
        = vars[v].num_refs_consumed
          + Cardinality(DecrefsAtRelease(v)) + Cardinality(XDecrefsAtRelease(v))

CommittedUnfailed == Committed /\ ~failed /\ crash = ""

\* v's reference is consumed more than once by the action that is its
\* final use.
ConsumedTwiceAtHandoff(v) ==
    \E i \in 0..(Len(actions) - 1) : HandoffAt(i, v) /\ Cardinality(ConsumedAt(i, v)) > 1

\* C37: in a committed rewrite, for every Owned variable, one plus the
\* increfs inserted for it equals the times its reference is consumed plus
\* the decrefs emitted at its release, however many refConsumed calls
\* there were and on whichever actions, constants included.
C37_RefcountsBalance ==
    CommittedUnfailed => \A v \in 1..Len(vars) : vars[v].reftype = "OWNED" => Balanced(v)

\* The same for the variables that are not consumed twice by their final
\* use.
C37_BalanceUnlessTwiceAtHandoff ==
    CommittedUnfailed =>
        \A v \in 1..Len(vars) :
            (vars[v].reftype = "OWNED" /\ ~ConsumedTwiceAtHandoff(v)) => Balanced(v)

\* A committed rewrite whose only action consumes the owned argument's
\* reference twice: no incref, no decref, two references given away.
C37_TwoConsumedOneOwned ==
    /\ CommittedUnfailed
    /\ \E v \in 1..Len(vars) :
          /\ vars[v].reftype = "OWNED" /\ vars[v].is_arg
          /\ vars[v].num_refs_consumed = 2
          /\ ConsumedTwiceAtHandoff(v)
          /\ InsertedIncrefs(v) = {}
          /\ DecrefsAtRelease(v) = {}

\* A committed rewrite with an owned constant consumed by a call: the use
\* added at commit keeps it from being handed off, so it gets an incref
\* and, at its release, a decref.
C37_OwnedConstantBalanced ==
    /\ CommittedUnfailed
    /\ \E v \in 1..Len(vars) :
          /\ vars[v].reftype = "OWNED" /\ vars[v].is_constant
          /\ vars[v].num_refs_consumed = 1
          /\ Cardinality(InsertedIncrefs(v)) = 1
          /\ Cardinality(DecrefsAtRelease(v)) = 1

(***************************************************************************)
(* C38.  The displacement of a chained guard jump (JumpSpec).              *)
(***************************************************************************)
\* The jumps that _nextSlotJump sent to a prior jump.
ChainedJumps == {k \in 1..Len(emitted_jmps) : emitted_jmps[k].target # SlotSize}

\* The displacement of jump k counted from the end of the two-byte form.
ShortDisplacement(k) == emitted_jmps[k].target - (emitted_jmps[k].at + ShortJumpSize)

FitsSigned8(d) == d >= -128 /\ d <= 127

\* The target of jump k is the start of a recorded jump to the slot end.
TargetsRecordedJump(k) ==
    \E i \in 1..(k - 1) :
        /\ emitted_jmps[i].at = emitted_jmps[k].target
        /\ RecordedJumpToSlotEnd(i)

\* C38: whenever _nextSlotJump chains a guard jump to a prior jump (the
\* current offset less the prior jump's start is below 0x80, so up to 127)
\* the backward displacement from the end of the two-byte jump fits a
\* signed byte, the target is a recorded jump that goes to the slot end,
\* and the chained jump is not recorded itself.
C38_ChainedDisplacementFits ==
    \A k \in ChainedJumps :
        /\ emitted_jmps[k].at - emitted_jmps[k].target < 128
        /\ FitsSigned8(ShortDisplacement(k))
        /\ TargetsRecordedJump(k)
        /\ ~emitted_jmps[k].recorded

\* The second half alone: chained jumps go to recorded jumps and are not
\* recorded; the displacement fits up to a distance of 126.
C38_ChainedTargets ==
    \A k \in ChainedJumps :
        /\ emitted_jmps[k].at - emitted_jmps[k].target < 128
        /\ emitted_jmps[k].at - emitted_jmps[k].target <= 126 => FitsSigned8(ShortDisplacement(k))
        /\ TargetsRecordedJump(k)
        /\ ~emitted_jmps[k].recorded

\* A jump chained over a distance of 127: displacement -129.
C38_ChainedAt127 ==
    \E k \in ChainedJumps :
        /\ emitted_jmps[k].at - emitted_jmps[k].target = 127
        /\ ShortDisplacement(k) = -129
        /\ emitted_jmps[k].size = LongJumpSize

(***************************************************************************)
(* C39.  How a rewrite ends.                                               *)
(***************************************************************************)
OutcomeEntries(what) == {i \in 1..Len(outcome_log) : outcome_log[i].what = what}

\* rewrite->abort() was called after rewrite->commit().
AbortAfterCommit ==
    \E i \in OutcomeEntries("commit"), j \in OutcomeEntries("abort") : i < j

FinishedSetOnce ==
    /\ Cardinality(OutcomeEntries("finished")) = IF finished THEN 1 ELSE 0
    /\ phase = "done" <=> finished
    /\ finished <=> slot \in {"aborted", "committed"}

\* Nothing of the outcome changes once finished is set.
FinishedIsFinal ==
    finished => (finished' /\ slot' = slot /\ outcome_log' = outcome_log /\ phase' = phase)

\* C39: every rewrite ends in one outcome: at most one of the slot's
\* commit and abort is ever called (abort is never called after the slot's
\* commit), finished is set exactly once, and neither commit nor abort
\* runs again on a finished rewriter.
C39_OneTerminalOutcome ==
    /\ [](Cardinality(OutcomeEntries("commit") \cup OutcomeEntries("abort")) <= 1)
    /\ [](~AbortAfterCommit)
    /\ []FinishedSetOnce
    /\ [][FinishedIsFinal]_vars_

\* C39 amended: the slot's commit and its abort are each called at most
\* once and finished is set exactly once; the slot's abort follows the
\* slot's commit exactly when the assembler had failed by the time the
\* slot's commit returned, and the rewrite then ends aborted; nothing
\* changes the outcome of a finished rewriter.
C39_OneOutcomeUnlessCommitOverflows ==
    /\ [](/\ Cardinality(OutcomeEntries("commit")) <= 1
          /\ Cardinality(OutcomeEntries("abort")) <= 1
          /\ \A i \in OutcomeEntries("commit") :
                outcome_log[i].has_failed <=> AbortAfterCommit
          /\ OutcomeEntries("abort") # {} <=> slot = "aborted"
          /\ (OutcomeEntries("commit") # {} /\ ~AbortAfterCommit) <=> slot = "committed")
    /\ []FinishedSetOnce
    /\ [][FinishedIsFinal]_vars_

\* The jump added by finishAssembly ran past the end of the slot: the
\* slot's commit was called, then finished was set and the slot's abort
\* called.
C39_AbortAfterSlotCommit ==
    /\ phase = "done" /\ slot = "aborted" /\ finished
    /\ Len(outcome_log) = 3
    /\ outcome_log[1] = SlotCall("commit", TRUE)
    /\ outcome_log[2].what = "finished"
    /\ outcome_log[3].what = "abort"
    /\ Len(code) > 0 /\ code[Len(code)].op = "jmp"

(***************************************************************************)
(* C40.  Live-outs at guard jumps.                                         *)
(***************************************************************************)
\* Live-out i is in its register when guard jump j is emitted.
LiveOutInPlaceAt(j, i) ==
    isInLocation(jmp_log[j].vars[live_outs[i]], fromDwarf(live_out_regs[i]))

LiveOutsOfType(type) ==
    {i \in 1..Len(live_outs) : fromDwarf(live_out_regs[i]).type = type}

\* C40: when the conditional jump of a guard is emitted every live-out
\* variable, in a general-purpose or an XMM register, is in its live-out
\* register, also after a call without side effects earlier in the guard
\* prefix spilled the caller-clobbered live-out registers.
C40_LiveOutsInPlaceAtGuardJump ==
    \A j \in 1..Len(jmp_log) : \A i \in 1..Len(live_outs) : LiveOutInPlaceAt(j, i)

\* The same for the general-purpose live-outs of rewrites that have not
\* failed.
C40_GPLiveOutsInPlaceAtGuardJump ==
    \A j \in 1..Len(jmp_log) :
        ~jmp_log[j].failed => \A i \in LiveOutsOfType("Register") : LiveOutInPlaceAt(j, i)

\* A committed rewrite with a guard jump emitted while the live-out of
\* xmm0 was in scratch space, where the call before the guard had put it,
\* and the live-out of r8 was back in r8.
C40_XmmLiveOutSpilledAtGuardJump ==
    /\ Committed /\ ~failed
    /\ "assertArgsInPlace" \in dbg
    /\ \E j \in 1..Len(jmp_log) :
          /\ \E i \in LiveOutsOfType("XMMRegister") :
                /\ ~LiveOutInPlaceAt(j, i)
                /\ \E k \in 1..Len(jmp_log[j].vars[live_outs[i]].locations) :
                      jmp_log[j].vars[live_outs[i]].locations[k].type = "Scratch"
          /\ \E i \in LiveOutsOfType("Register") :
                isClobberedByCall(fromDwarf(live_out_regs[i])) /\ LiveOutInPlaceAt(j, i)
          /\ \E c \in 1..Len(call_log) : call_log[c].ip < jmp_log[j].ip

====
